---- MODULE Spec2Model ----
(***************************************************************************)
(* erateEstimate (src/erateEstimate/erateEstimate.C): the iterative        *)
(* overlap-consistency re-estimation engine of canu.                       *)
(*                                                                         *)
(* The run is: build the overlap index, load the compact overlap array     *)
(* (from the memory-mapped cache file or by streaming the overlap store),  *)
(* run recomputeErrorProfile for iter = 0,1,2,3 (a parallel per-read phase *)
(* followed by the sequential prefix-sum rebuild), then outputOverlaps.    *)
(*                                                                         *)
(* Two more programs of the sources are modelled, each with its own        *)
(* variables and its own specification: the overlap partition tool         *)
(* (PartitionSpec) and existDB::createFromMeryl (ExistSpec).  While one    *)
(* program runs the variables of the other two stay as they are.           *)
(*                                                                         *)
(* Numbers.  Error rates are carried in "evalue" units of 1/10000 (the     *)
(* 12-bit quantised encoding); a double holding x is modelled by the exact *)
(* rational x*10000.  TLC integers are 32-bit signed, so the unsigned      *)
(* 32-bit cells of the program (errorMeanS, span coordinates) are modelled *)
(* modulo UINT_MOD = 2^30 instead of 2^32: every value the model reaches   *)
(* that is not a wrapped difference stays far below either modulus.        *)
(***************************************************************************)
EXTENDS Integers, Sequences, FiniteSets, TLC

(***************************************************************************)
(* Bounds of the model.                                                    *)
(***************************************************************************)
NumReads == 2      \* reads in the read store, ids 1..NumReads
MaxLen   == 3      \* longest sequence length of the sample
MaxHang  == 1      \* |a_hang|, |b_hang| of the sampled overlaps
MaxOvl   == 2      \* records in the sampled overlap store
BlockLen == 2      \* records returned by one loadBlockOfOverlaps call

(***************************************************************************)
(* Program constants.                                                      *)
(***************************************************************************)
ERATE_TOLERANCE == 300      \* #define ERATE_TOLERANCE 0.03, in evalue units
NumIterations   == 4        \* for (uint32 ii=0; ii<4; ii++)
AS_MAX_EVALUE   == 4095     \* largest 12-bit evalue (erate : 12)
EvalueScale     == 10000    \* AS_OVS_decodeEvalue(E) = E / 10000.0

UINT_MOD == 2^30            \* stands for 2^32, see the header comment
UINT_MAX == UINT_MOD - 1

Min(a, b) == IF a < b THEN a ELSE b

\* Conversion of an int to uint32 (assignment of an int32 expression to a uint32).
U32(x) == x % UINT_MOD

\* Conversion of a uint32 to int32 (int32 seqLenA = readProfile[..].seqLen).
AsInt32(x) == IF x >= UINT_MOD \div 2 THEN x - UINT_MOD ELSE x

\* An n-bit unsigned bit-field keeps the low n bits of what is stored in it.
UBits(x, n) == x % (2^n)

\* An n-bit signed bit-field keeps the low n bits, read back in two's complement.
SBits(x, n) == LET u == x % (2^n) IN IF u >= 2^(n-1) THEN u - 2^n ELSE u

(***************************************************************************)
(* AS_OVS_encodeEvalue applied to the double num/den (in evalue units):    *)
(* (Q < decode(AS_MAX_EVALUE)) ? (int)(10000.0 * Q + 0.5) : AS_MAX_EVALUE. *)
(***************************************************************************)
AS_OVS_encodeEvalue(num, den) ==
  IF num >= AS_MAX_EVALUE * den THEN AS_MAX_EVALUE
                                ELSE (2 * num + den) \div (2 * den)

(***************************************************************************)
(* ovOverlap::erate() returns the decoded rate, evalue / 10000.0, while    *)
(* ovOverlap::evalue() returns the encoded one.  "ovl.erate() == x" for an *)
(* integer x is therefore evalue = 10000 * x.                              *)
(***************************************************************************)
ovOverlap_erate_equals(ovl, x) == ovl.evalue = EvalueScale * x

(***************************************************************************)
(* ESToverlap::populate: the packed record.                                *)
(***************************************************************************)
populate(ovl) ==
  [ a_iid     |-> UBits(ovl.a_iid, 23),
    b_iid_hi  |-> (ovl.b_iid \div 2^14) % 2^9,
    b_iid_lo  |-> ovl.b_iid % 2^14,
    a_hang    |-> SBits(ovl.a_hang, 17),
    b_hang    |-> SBits(ovl.b_hang, 17),
    erate     |-> UBits(ovl.evalue, 12),
    flipped   |-> ovl.flipped,
    discarded |-> FALSE ]

\* (b_iid_hi << 14) | (b_iid_lo)
b_iid_of(e) == e.b_iid_hi * 2^14 + e.b_iid_lo

\* The six assertions that end populate; 0 when all hold, else the source
\* line of the first one that fails.
populateAssert(ovl, e) ==
  IF      ovl.a_iid   # e.a_iid                    THEN 142
  ELSE IF ovl.b_iid   # b_iid_of(e)                THEN 143
  ELSE IF ovl.a_hang  # e.a_hang                   THEN 144
  ELSE IF ovl.b_hang  # e.b_hang                   THEN 145
  ELSE IF ~ ovOverlap_erate_equals(ovl, e.erate)   THEN 146
  ELSE IF ovl.flipped # e.flipped                  THEN 147
  ELSE 0

(***************************************************************************)
(* State.                                                                  *)
(***************************************************************************)
VARIABLES
  seqStore,      \* read store: seqStore[id] = sequence length, 0 for a deleted read
  ovlStore,      \* overlap store: the ovOverlap records, sorted by a_iid
  supplied,      \* the records the store hands out for the active range
  iidMin,        \* first read id of the active range (-b / -p)
  iidMax,        \* last read id of the active range  (-e / -p)
  NDEBUG,        \* TRUE when the build compiles assert() out
  heapFill,      \* what a cell of memory the program never wrote reads as
  ovlCache,      \* the cache file: [given, exists, data]
  readProfile,   \* readProfile[iid]: [seqLen, errorMeanS, errorMeanU], iid 0-based
  overlapIndex,  \* overlapIndex[0..numIIDs]
  overlaps,      \* the ESToverlap array; overlaps[k+1] models C's overlaps[k]
  overlapsMMF,   \* TRUE when overlaps is the memory-mapped cache file
  no,            \* the load loop's / the output loop's record counter
  iter,          \* the iteration index passed to recomputeErrorProfile
  visited,       \* reads whose work item of the running parallel for has finished
  outStore,      \* records written to the output store
  pc,            \* "index", "load", "profile", "sum", "output", or a final state
  fault,         \* why the process ended in "aborted" or "crashed", else ""
  nDiscarded,    \* recomputeErrorProfile's count of overlaps discarded earlier
  nDiscard,      \* recomputeErrorProfile's count of overlaps discarded in this call
  nRemain,       \* recomputeErrorProfile's count of overlaps kept in this call
  firstRun,      \* what an earlier run on the same inputs ended with, if there was one
  planned,       \* planned[iid]: what each work item would leave, taken as the iteration starts
  \* The partition tool (the second program of the file, lines 757 and on).
  readLen,            \* readLen[0..numReads], filled by loadReadLengths
  readLib,            \* readLib[id]: sqRead_libraryID of read id
  libToHash,          \* -H: libraries to load into the hash table
  libToRef,           \* -R: libraries to stream against it
  minOverlapLength,   \* -ol
  ovlHashBlockLength, \* -hl
  ovlRefBlockLength,  \* -rl
  hashMin, hashMax,   \* range of the reads to hash
  refMin, refMax,     \* range of the reference reads
  hashBeg, hashEnd,   \* the hash block being built
  refBeg, refEnd,     \* the reference block being built
  hashReads,          \* reads of the hash block long enough to count
  hashBases,          \* their bases, one more per read
  batchSize,          \* jobs in the current batch directory
  batchName,          \* name of the batch directory
  jobName,            \* name of the next job
  BAT, JOB, OPT,      \* the three output files, line by line
  step,               \* where the partition tool is: "idle", "start", "hash", "ref", "done"
  \* existDB::createFromMeryl (meryl/libkmer/existDB-create-from-meryl.C).
  merSize,            \* the merSize argument, and that of the meryl database
  tblBits,            \* M->prefixSize()
  merStream,          \* the meryl database: its mers in order, each [mer, count]
  loCount, hiCount,   \* the arguments lo and hi
  flags,              \* the flags argument, as the set of the flags that are set
  compressedHash,     \* _compressedHash, set when the object was constructed
  countingTable,      \* countingTable[0..tableSizeInEntries]
  numMers,            \* _numMers
  hshWidth,           \* _hshWidth
  hashTableWords,     \* _hashTableWords
  hashTable,          \* the entries of _hashTable, 0..tableSizeInEntries
  buckets,            \* _buckets, as far as it is written
  nextMer,            \* mers of the stream that the running pass has read
  counted,            \* the <<bucket, check>> of each mer the counting pass counted
  placed,             \* the <<bucket, check>> of each insertMer call
  stage               \* "idle", "start", "count", "alloc", "offset", "place", or a final state

inputs == <<seqStore, ovlStore, supplied, iidMin, iidMax, NDEBUG, heapFill>>
counters == <<nDiscarded, nDiscard, nRemain>>
vars   == <<seqStore, ovlStore, supplied, iidMin, iidMax, NDEBUG, heapFill, ovlCache,
            readProfile, overlapIndex, overlaps, overlapsMMF, no, iter,
            visited, outStore, pc, fault, nDiscarded, nDiscard, nRemain, firstRun,
            planned, readLen, readLib, libToHash, libToRef, minOverlapLength,
            ovlHashBlockLength, ovlRefBlockLength, hashMin, hashMax, refMin, refMax,
            hashBeg, hashEnd, refBeg, refEnd, hashReads, hashBases, batchSize,
            batchName, jobName, BAT, JOB, OPT, step,
            merSize, tblBits, merStream, loCount, hiCount, flags, compressedHash,
            countingTable, numMers, hshWidth, hashTableWords, hashTable, buckets,
            nextMer, counted, placed, stage>>

\* The state of existDB::createFromMeryl.
existDB == <<merSize, tblBits, merStream, loCount, hiCount, flags, compressedHash,
             countingTable, numMers, hshWidth, hashTableWords, hashTable, buckets,
             nextMer, counted, placed, stage>>

\* The members and locals of createFromMeryl before it has set any.
existLocals ==
  /\ countingTable = << >> /\ numMers = 0 /\ hshWidth = 0 /\ hashTableWords = 0
  /\ hashTable = << >> /\ buckets = << >>
  /\ nextMer = 0 /\ counted = << >> /\ placed = << >>

\* createFromMeryl is not called.
existIdle ==
  /\ merSize = 0 /\ tblBits = 0 /\ merStream = << >>
  /\ loCount = 0 /\ hiCount = 0 /\ flags = {} /\ compressedHash = FALSE
  /\ existLocals
  /\ stage = "idle"

\* The state of the partition tool.
partition == <<readLen, readLib, libToHash, libToRef, minOverlapLength,
               ovlHashBlockLength, ovlRefBlockLength, hashMin, hashMax, refMin, refMax,
               hashBeg, hashEnd, refBeg, refEnd, hashReads, hashBases, batchSize,
               batchName, jobName, BAT, JOB, OPT, step>>

\* The state of erateEstimate.
estimate == <<seqStore, ovlStore, supplied, iidMin, iidMax, NDEBUG, heapFill, ovlCache,
              readProfile, overlapIndex, overlaps, overlapsMMF, no, iter,
              visited, outStore, pc, fault, nDiscarded, nDiscard, nRemain, firstRun,
              planned>>

\* The locals of partitionLength as they are declared (931-943), and the
\* output files as openOutput leaves them.
partitionLocals ==
  /\ hashBeg = 1 /\ hashEnd = 0 /\ hashReads = 0 /\ hashBases = 0
  /\ refBeg = 1 /\ refEnd = 0
  /\ batchSize = 0 /\ batchName = 1 /\ jobName = 1
  /\ BAT = << >> /\ JOB = << >> /\ OPT = << >>

\* The partition tool is not run.
partitionIdle ==
  /\ readLen = << >> /\ readLib = << >>
  /\ libToHash = {} /\ libToRef = {}
  /\ minOverlapLength = 0 /\ ovlHashBlockLength = 0 /\ ovlRefBlockLength = 0
  /\ hashMin = 1 /\ hashMax = UINT_MAX /\ refMin = 1 /\ refMax = UINT_MAX
  /\ partitionLocals
  /\ step = "idle"

\* uint32 numIIDs = (iidMax - iidMin + 1)
numIIDs == iidMax - iidMin + 1

(***************************************************************************)
(* The overlap store.                                                      *)
(***************************************************************************)
\* The records of the store whose a_iid lies in [lo, hi], in store order.
InRange(recs, lo, hi) ==
  SelectSeq(recs, LAMBDA ovl : ovl.a_iid >= lo /\ ovl.a_iid <= hi)

\* ovlStore->setRange(iidMin, iidMax): what main streams.
rangedStore == InRange(ovlStore, iidMin, iidMax)

\* ovStore::numOverlapsInRange after setRange(iidMin, iidMax).
numOverlapsInRange == Len(rangedStore)

\* ovStore::numOverlapsPerRead: the number of overlaps of each read of the
\* store, indexed by read id.
numOverlapsPerRead(id) == Len(InRange(ovlStore, id, id))

\* ovStore::loadBlockOfOverlaps(ovl, ovlLen): the next block of a stream.
loadBlockOfOverlaps(stream, pos) ==
  SubSeq(stream, pos + 1, Min(pos + BlockLen, Len(stream)))

(***************************************************************************)
(* readErrorEstimate::initialize: seqLen from the read store, and two      *)
(* arrays of seqLen + 1 cells that are allocated and not written.          *)
(***************************************************************************)
initialize(len) ==
  [ seqLen     |-> len,
    errorMeanS |-> [k \in 0..len |-> heapFill],
    errorMeanU |-> [k \in 0..len |-> heapFill % 2^16] ]

(***************************************************************************)
(* ESToverlapSpan::ESToverlapSpan.                                         *)
(***************************************************************************)
\* readProfile[id - iidMin], the subscript computed in uint32.
profileIndex(id) == U32(id - iidMin)

inWindow(id) == profileIndex(id) < numIIDs

\* readProfile[id - iidMin].seqLen as int32.  Outside the array the read
\* returns whatever the memory there holds.
seqLenAt(id) ==
  IF inWindow(id) THEN AsInt32(readProfile[profileIndex(id)].seqLen)
                  ELSE AsInt32(heapFill)

ESToverlapSpan(ovl) ==
  LET seqLenA == seqLenAt(ovl.a_iid)
      seqLenB == seqLenAt(b_iid_of(ovl))
  IN  [ a_iid |-> ovl.a_iid,
        b_iid |-> b_iid_of(ovl),
        a_beg |-> IF ovl.a_hang < 0 THEN 0 ELSE U32(ovl.a_hang),
        a_end |-> IF ovl.b_hang < 0 THEN U32(seqLenA + ovl.b_hang) ELSE U32(seqLenA),
        b_beg |-> IF ovl.a_hang < 0 THEN U32(-ovl.a_hang) ELSE 0,
        b_end |-> IF ovl.b_hang < 0 THEN U32(seqLenB) ELSE U32(seqLenB - ovl.b_hang),
        fwd   |-> (ovl.flipped = FALSE),
        erate |-> ovl.erate ]

(***************************************************************************)
(* computeEstimatedErate.                                                  *)
(***************************************************************************)
\* readProfile[id - iidMin].errorMeanS[k]; -1 when the cell is not one of an
\* allocated errorMeanS array (a profile outside the window, or k > seqLen).
errorMeanSAt(id, k) ==
  IF inWindow(id) /\ k <= readProfile[profileIndex(id)].seqLen
  THEN readProfile[profileIndex(id)].errorMeanS[k]
  ELSE -1

\* The result is [st, why, est]: st = "ok" and est the estimate in evalue
\* units, or st = "aborted" (a failed assert) or "crashed" (a wild read).
computeEstimatedErate(ovl) ==
  LET ab  == ovl.a_beg
      ae  == ovl.a_end
      bb  == ovl.b_beg
      be  == ovl.b_end
      sae == errorMeanSAt(ovl.a_iid, ae)
      sab == errorMeanSAt(ovl.a_iid, ab)
      sbe == errorMeanSAt(ovl.b_iid, be)
      sbb == errorMeanSAt(ovl.b_iid, bb)
      estErrorA == U32(sae - sab)
      estErrorB == U32(sbe - sbb)
  IN  IF      ~ (ab < ae) /\ ~ NDEBUG
        THEN [st |-> "aborted", why |-> "assert(ab < ae) 258", est |-> 0]
      ELSE IF sae < 0 \/ sab < 0
        THEN [st |-> "crashed", why |-> "errorMeanS of read a read out of bounds 265", est |-> 0]
      ELSE IF ~ (bb < be) /\ ~ NDEBUG
        THEN [st |-> "aborted", why |-> "assert(bb < be) 272", est |-> 0]
      ELSE IF sbe < 0 \/ sbb < 0
        THEN [st |-> "crashed", why |-> "errorMeanS of read b read out of bounds 279", est |-> 0]
      ELSE [st |-> "ok", why |-> "",
            est |-> (estErrorA \div 2) + (estErrorB \div 2)]

(***************************************************************************)
(* recomputeErrorProfile, the work item of one read (the body of the       *)
(* parallel for).                                                          *)
(***************************************************************************)
\* if (overlaps[oo].discarded == true) continue;
skipDiscarded(ovl) == ovl.discarded = TRUE

\* The test with iteration 0 included.
usesEstimate_always(it) == it >= 0

\* if (iter > 0): the estimate is computed and compared.
usesEstimate(it) == it > 0

\* The comparison is done on doubles: estError and erate are evalues divided
\* by 10000.0 and ERATE_TOLERANCE is the double 0.03.  When the evalues differ
\* from estError + 300 = erate, the rounding of the doubles is too small to
\* matter.  When estError + 300 = erate, the sum estError / 10000.0 + 0.03 is
\* rounded, and for the following estError (all there are up to the largest
\* evalue less 300) it comes out below the double erate / 10000.0.
RoundsBelow ==
  { 2, 7, 8, 16, 23, 28, 33, 45, 50, 52, 57, 62, 67, 81, 86, 91, 96, 110,
    113, 115, 120, 125, 139, 144, 149, 154, 159, 163, 168, 173, 178, 183,
    188, 192, 197, 202, 207, 212, 217, 222, 226, 231, 236, 241, 246, 251,
    255, 260, 265, 270, 275, 280, 285, 289, 294, 299, 304, 309, 314, 321,
    326, 331, 336, 341, 346, 351, 356, 361, 366, 371, 384, 389, 394, 399,
    404, 409, 414, 419, 424, 429, 434, 447, 452, 457, 462, 467, 472, 477,
    482, 487, 492, 510, 515, 520, 525, 530, 535, 540, 545, 550, 555, 573,
    578, 583, 588, 593, 598, 603, 608, 613, 618, 642, 647, 652, 676, 681,
    705, 710, 715, 739, 744, 768, 773, 778, 797, 802, 807, 831, 836, 860,
    865, 870, 894, 899, 923, 928, 933, 957, 962, 967, 972, 977, 982, 987,
    992, 997, 1002, 1007, 1012, 1017, 1022, 1027, 1032, 1037, 1042, 1083,
    1088, 1093, 1098, 1103, 1108, 1113, 1118, 1123, 1128, 1133, 1138,
    1143, 1148, 1153, 1158, 1163, 1168, 1204, 1209, 1214, 1219, 1224,
    1229, 1234, 1239, 1244, 1249, 1284, 1289, 1347, 1352, 1410, 1415,
    1473, 1478, 1536, 1541, 1594, 1599, 1604, 1657, 1662, 1667, 1720,
    1725, 1730, 1783, 1788, 1793, 1846, 1851, 1856, 1909, 1914, 1972,
    1977, 2035, 2040, 2098, 2103, 2161, 2166, 2203, 2213, 2223, 2224,
    2233, 2234, 2243, 2244, 2253, 2254, 2264, 2274, 2284, 2294, 2304,
    2314, 2324, 2334, 2344, 2345, 2354, 2355, 2364, 2365, 2374, 2375,
    2384, 2385, 2395, 2405, 2415, 2425, 2435, 2445, 2455, 2465, 2475,
    2476, 2485, 2486, 2495, 2496, 2505, 2506, 2507, 2516, 2517, 2526,
    2527, 2536, 2537, 2546, 2547, 2556, 2557, 2566, 2567, 2568, 2576,
    2577, 2578, 2586, 2587, 2588, 2596, 2597, 2598, 2606, 2607, 2608,
    2616, 2617, 2618, 2626, 2627, 2628, 2636, 2637, 2638, 2647, 2648,
    2657, 2658, 2667, 2668, 2677, 2678, 2687, 2688, 2689, 2697, 2698,
    2699, 2707, 2708, 2709, 2717, 2718, 2719, 2727, 2728, 2729, 2737,
    2738, 2739, 2747, 2748, 2749, 2757, 2758, 2759, 2768, 2769, 2778,
    2779, 2788, 2789, 2798, 2799, 2808, 2809, 2818, 2819, 2820, 2828,
    2829, 2830, 2838, 2839, 2840, 2848, 2849, 2850, 2858, 2859, 2860,
    2868, 2869, 2870, 2878, 2879, 2880, 2889, 2890, 2899, 2900, 2909,
    2910, 2919, 2920, 2929, 2930, 2939, 2940, 2941, 2949, 2950, 2951,
    2959, 2960, 2961, 2969, 2970, 2971, 2979, 2980, 2981, 2989, 2990,
    2991, 2999, 3000, 3001, 3009, 3010, 3011, 3020, 3021, 3030, 3031,
    3040, 3041, 3050, 3051, 3060, 3061, 3070, 3071, 3072, 3080, 3081,
    3082, 3090, 3091, 3092, 3100, 3101, 3102, 3110, 3111, 3112, 3120,
    3121, 3122, 3130, 3131, 3132, 3141, 3142, 3151, 3152, 3161, 3162,
    3171, 3172, 3181, 3182, 3191, 3192, 3193, 3201, 3202, 3203, 3211,
    3212, 3213, 3221, 3222, 3223, 3231, 3232, 3233, 3241, 3242, 3243,
    3251, 3252, 3253, 3261, 3262, 3263, 3272, 3273, 3282, 3283, 3292,
    3293, 3302, 3303, 3312, 3313, 3314, 3322, 3323, 3324, 3332, 3333,
    3334, 3342, 3343, 3344, 3352, 3353, 3354, 3362, 3363, 3364, 3372,
    3373, 3374, 3382, 3383, 3384, 3393, 3394, 3403, 3404, 3413, 3414,
    3423, 3424, 3433, 3434, 3443, 3444, 3445, 3453, 3454, 3455, 3463,
    3464, 3465, 3473, 3474, 3475, 3483, 3484, 3485, 3493, 3494, 3495,
    3503, 3504, 3505, 3514, 3515, 3524, 3525, 3534, 3535, 3544, 3545,
    3554, 3555, 3564, 3565, 3566, 3574, 3575, 3576, 3584, 3585, 3586,
    3594, 3595, 3596, 3604, 3605, 3606, 3614, 3615, 3616, 3624, 3625,
    3626, 3634, 3635, 3636, 3645, 3646, 3655, 3656, 3665, 3666, 3675,
    3676, 3685, 3686, 3695, 3696, 3697, 3705, 3706, 3707, 3715, 3716,
    3717, 3725, 3726, 3727, 3735, 3736, 3737, 3745, 3746, 3747, 3755,
    3756, 3757, 3766, 3767, 3776, 3777, 3786, 3787 }

\* if (estError + ERATE_TOLERANCE < erate), on evalues.
exceedsEstimate(estError, erate) ==
  \/ estError + ERATE_TOLERANCE < erate
  \/ estError + ERATE_TOLERANCE = erate /\ estError \in RoundsBelow

\* The entry with the whole erate as its value instead of erate / 2.
eRateListEntry_whole(ovl) ==
  [lo |-> ovl.a_beg, len |-> U32(ovl.a_end - ovl.a_beg), erate |-> 2 * ovl.erate]

\* eRateList.add(ovl.a_beg, ovl.a_end - ovl.a_beg, erate / 2).  The entry keeps
\* the encoded erate; the division by 2 is done with the division by the depth.
eRateListEntry(ovl) ==
  [lo |-> ovl.a_beg, len |-> U32(ovl.a_end - ovl.a_beg), erate |-> ovl.erate]

(***************************************************************************)
(* The body of the loop over the slice, at position oo (0-based).  What it *)
(* does depends on overlaps[oo] and on the errorMeanS arrays only, which   *)
(* no work item writes.  The result is [act, why, entry]: act is "skip"    *)
(* (already discarded), "keep" (entry is added to eRateList), "discard"    *)
(* (the bit is set), or "aborted" / "crashed" when the process ends at why.*)
(***************************************************************************)
visitOverlap(iid, oo) ==
  LET none == [lo |-> 0, len |-> 0, erate |-> 0]
      ovl  == ESToverlapSpan(overlaps[oo + 1])
      est  == computeEstimatedErate(ovl)
      keep == [act |-> "keep", why |-> "", entry |-> eRateListEntry(ovl)]
  IN  IF oo >= Len(overlaps)
        THEN [act |-> "crashed", why |-> "overlaps[] read past its end 319", entry |-> none]
      ELSE IF skipDiscarded(overlaps[oo + 1])
        THEN [act |-> "skip", why |-> "", entry |-> none]
      ELSE IF ~ NDEBUG /\ ovl.a_iid # iid + iidMin
        THEN [act |-> "aborted", why |-> "assert(ovl.a_iid == iid + iidMin) 327",
              entry |-> none]
      ELSE IF ~ NDEBUG /\ ~ (ovl.a_beg <= ovl.a_end)
        THEN [act |-> "aborted", why |-> "assert(ovl.a_beg <= ovl.a_end) 328",
              entry |-> none]
      ELSE IF ~ usesEstimate(iter)
        THEN keep
      ELSE IF est.st # "ok"
        THEN [act |-> est.st, why |-> est.why, entry |-> none]
      ELSE IF ~ exceedsEstimate(est.est, ovl.erate)
        THEN keep
      ELSE IF overlapsMMF
        THEN [act |-> "crashed", why |-> "store to the read-only mapping 339",
              entry |-> none]
      ELSE [act |-> "discard", why |-> "", entry |-> none]

(***************************************************************************)
(* The loop over the slice [bgn, end) of read iid: the body runs position  *)
(* by position up to the first one that ends the process.  The result is   *)
(* [st, why, discard, list, skipped]: the positions (1-based) whose        *)
(* discarded bit the loop sets, the entries added to eRateList in order,   *)
(* the number of overlaps passed over as discarded earlier, and st = "ok"  *)
(* when the loop ran to its end.                                           *)
(***************************************************************************)
sliceOutcome(order, body) ==
  LET stops == { i \in DOMAIN body : body[i].act \in {"aborted", "crashed"} }
      stop  == IF stops = {} THEN Len(body) + 1
               ELSE CHOOSE i \in stops : \A j \in stops : i <= j
      kept  == SelectSeq(SubSeq(body, 1, stop - 1), LAMBDA b : b.act = "keep")
  IN  [ st      |-> IF stops = {} THEN "ok" ELSE body[stop].act,
        why     |-> IF stops = {} THEN "" ELSE body[stop].why,
        discard |-> { order[i] + 1 : i \in { j \in 1..(stop - 1) : body[j].act = "discard" } },
        list    |-> [i \in 1..Len(kept) |-> kept[i].entry],
        skipped |-> Cardinality({ j \in 1..(stop - 1) : body[j].act = "skip" }) ]

\* The loop when it visits the positions oo = order[1], order[2], ...; the
\* body is evaluated once per position.
visitInOrder(iid, order) ==
  CHOOSE r \in { sliceOutcome(order, body) :
                   body \in {[i \in DOMAIN order |-> visitOverlap(iid, order[i])]} } : TRUE

\* for (uint64 oo=bgn; oo<end; oo++)
programOrder(bgn, end) == [i \in 1..(end - bgn) |-> bgn + i - 1]

visitSlice(iid, bgn, end) == visitInOrder(iid, programOrder(bgn, end))

\* The flag assigned from this pass's decision instead of only ever set.
markDiscarded_assigned(ovs, discard) ==
  [k \in DOMAIN ovs |-> [ovs[k] EXCEPT !.discarded = (k \in discard)]]

\* The flag set one position too far: on overlaps[oo + 1].
markDiscarded_next(ovs, discard) ==
  [k \in DOMAIN ovs |->
     IF (k - 1) \in discard THEN [ovs[k] EXCEPT !.discarded = TRUE] ELSE ovs[k]]

\* The flag set on the overlap and on its twin, the record of the same pair of
\* reads in the slice of the b read.
markDiscarded_twin(ovs, discard) ==
  [k \in DOMAIN ovs |->
     IF \/ k \in discard
        \/ \E j \in discard : /\ ovs[k].a_iid = b_iid_of(ovs[j])
                               /\ b_iid_of(ovs[k]) = ovs[j].a_iid
     THEN [ovs[k] EXCEPT !.discarded = TRUE] ELSE ovs[k]]

\* overlaps[oo].discarded = true, for the positions the loop decided on.
markDiscarded(ovs, discard) ==
  [k \in DOMAIN ovs |->
     IF k \in discard THEN [ovs[k] EXCEPT !.discarded = TRUE] ELSE ovs[k]]

(***************************************************************************)
(* intervalList<uint32,double>: eRateMap(eRateList) flattens the entries   *)
(* into disjoint intervals carrying the number of entries that cover them  *)
(* (depth) and the sum of their values (value).  Given per base.           *)
(***************************************************************************)
intervalHi(e) == U32(e.lo + e.len)

covers(e, p) == e.lo <= p /\ p < intervalHi(e)

depth(list, p) == Cardinality({ i \in 1..Len(list) : covers(list[i], p) })

\* Twice the summed value of the entries lo..hi of the list that cover p: the
\* sum of their erates.
RECURSIVE value2Of(_, _, _, _)
value2Of(list, p, lo, hi) ==
  IF lo > hi THEN 0
  ELSE IF lo = hi THEN (IF covers(list[lo], p) THEN list[lo].erate ELSE 0)
  ELSE LET mid == (lo + hi) \div 2
       IN  value2Of(list, p, lo, mid) + value2Of(list, p, mid + 1, hi)

value2(list, p) == value2Of(list, p, 1, Len(list))

\* The largest hi of the flattened intervals, 0 for an empty list.
maxHi(list) ==
  LET his == { intervalHi(list[i]) : i \in 1..Len(list) } \cup {0}
  IN  CHOOSE m \in his : \A h \in his : h <= m

\* The summed value encoded without the division by the depth.
eEnc_sum(list, p) == AS_OVS_encodeEvalue(value2(list, p), 2)

\* The value of the entry added last among those that cover p, encoded: each
\* entry unpacked over the ones before it, with no flattening.
eEnc_last(list, p) ==
  LET at   == { i \in 1..Len(list) : covers(list[i], p) }
      last == CHOOSE i \in at : \A j \in at : j <= i
  IN  AS_OVS_encodeEvalue(list[last].erate, 2)

\* eEnc = AS_OVS_encodeEvalue(value / depth) of the interval holding base p.
eEnc(list, p) == AS_OVS_encodeEvalue(value2(list, p), 2 * depth(list, p))

\* The array left as the previous iteration wrote it.
memsetErrorMeanU_missing(errorMeanU, seqLen) == errorMeanU

\* memset(readProfile[iid].errorMeanU, 0, sizeof(uint16) * (seqLen + 1))
memsetErrorMeanU(errorMeanU, seqLen) == [p \in 0..seqLen |-> 0]

\* The unpacking loop: errorMeanU[pp] = eEnc for every base of every interval.
unpackErrorMeanU(errorMeanU, list, seqLen) ==
  [p \in 0..seqLen |-> IF depth(list, p) > 0 THEN eEnc(list, p) ELSE errorMeanU[p]]

(***************************************************************************)
(* The second loop of recomputeErrorProfile: errorMeanS from errorMeanU.   *)
(* Cells 0..seqLen-1 are assigned; cell seqLen keeps what it held.         *)
(***************************************************************************)
\* The sum of cells lo..hi of an array.
RECURSIVE sumCells(_, _, _)
sumCells(cells, lo, hi) ==
  IF lo = hi THEN cells[lo]
  ELSE LET mid == (lo + hi) \div 2
       IN  sumCells(cells, lo, mid) + sumCells(cells, mid + 1, hi)

\* errorMeanS[ii], ii < seqLen, when the loop has run: errorMeanU[0] + ... +
\* errorMeanU[ii], the additions done in uint32.
runningSum(errorMeanU, ii) == U32(sumCells(errorMeanU, 0, ii))

\* The rebuild without the test for a deleted read: errorMeanS[0] is written
\* for every read.
sumErrorMeanS_all(prof) ==
  [prof EXCEPT !.errorMeanS =
     [k \in 0..prof.seqLen |->
        IF k < prof.seqLen \/ k = 0 THEN runningSum(prof.errorMeanU, k)
                                    ELSE prof.errorMeanS[k]]]

sumErrorMeanS(prof) ==
  IF prof.seqLen = 0 THEN prof
  ELSE [prof EXCEPT !.errorMeanS =
          [k \in 0..prof.seqLen |->
             IF k < prof.seqLen THEN runningSum(prof.errorMeanU, k)
                                ELSE prof.errorMeanS[k]]]

(***************************************************************************)
(* outputOverlaps: the loop over one block of the original store.          *)
(* The result is [st, why, no, out].                                       *)
(***************************************************************************)
\* Every record copied, whatever its flag.
writesOverlap_always(e) == TRUE

\* if (overlaps[no].discarded == true) nDiscarded++; else writeOverlap(ovl + xx);
writesOverlap(e) == ~ (e.discarded = TRUE)

RECURSIVE copyBlock(_, _, _, _)
copyBlock(ovl, xx, n, out) ==
  IF xx > Len(ovl)
    THEN [st |-> "ok", why |-> "", no |-> n, out |-> out]
  ELSE IF n >= Len(overlaps)
    THEN [st |-> "crashed", why |-> "overlaps[] read past its end 447",
          no |-> n, out |-> out]
  ELSE IF ~ NDEBUG /\ ovl[xx].a_iid # overlaps[n + 1].a_iid
    THEN [st |-> "aborted", why |-> "assert(ovl[xx].a_iid == a_iid) 450",
          no |-> n, out |-> out]
  ELSE IF ~ NDEBUG /\ ovl[xx].b_iid # b_iid_of(overlaps[n + 1])
    THEN [st |-> "aborted", why |-> "assert(ovl[xx].b_iid == b_iid) 451",
          no |-> n, out |-> out]
  ELSE IF writesOverlap(overlaps[n + 1])
    THEN copyBlock(ovl, xx + 1, n + 1, Append(out, ovl[xx]))
  ELSE copyBlock(ovl, xx + 1, n + 1, out)

(***************************************************************************)
(* main: the overlap index.                                                *)
(***************************************************************************)
\* overlapIndex[iid+1] = overlapIndex[iid] + overlapLen[iid+1], from overlapIndex[0] = 0.
RECURSIVE buildOverlapIndex(_)
buildOverlapIndex(k) ==
  IF k = 0 THEN 0 ELSE buildOverlapIndex(k - 1) + numOverlapsPerRead(k)

(***************************************************************************)
(* The streaming load of one block: populate every record of the block,    *)
(* stopping at the first one whose assertions fail.                        *)
(* The result is [bad, packed]: bad = 0 or the line of the failed assert.  *)
(***************************************************************************)
RECURSIVE populateBlock(_, _, _)
populateBlock(ovl, xx, packed) ==
  IF xx > Len(ovl) THEN [bad |-> 0, packed |-> packed]
  ELSE LET e == populate(ovl[xx])
       IN  IF ~ NDEBUG /\ populateAssert(ovl[xx], e) # 0
           THEN [bad |-> populateAssert(ovl[xx], e), packed |-> Append(packed, e)]
           ELSE populateBlock(ovl, xx + 1, Append(packed, e))

(***************************************************************************)
(* The inputs of a run: the read store, the overlap store, the active      *)
(* range, the build, the content of fresh memory and the cache file.       *)
(***************************************************************************)
Reads   == 1..NumReads
SeqLens == {0, MaxLen - 1, MaxLen}
Hangs   == (0 - MaxHang)..MaxHang
Evalues == {0, 200, 4000}          \* erates 0, 0.02 and 0.40

\* The orientation of a sampled overlap, fixed by its hangs so that both
\* orientations occur in the sample.
sampleFlipped(a_hang, b_hang) == (a_hang + b_hang) % 2 = 1

\* An overlap of two non-deleted reads whose hangs fit the reads' lengths: the
\* aligned regions lie inside the reads and have the same length.
fitsReads(lens, ovl) ==
  LET lenA == lens[ovl.a_iid]
      lenB == lens[ovl.b_iid]
      abgn == IF ovl.a_hang < 0 THEN 0 ELSE ovl.a_hang
      aend == IF ovl.b_hang < 0 THEN lenA + ovl.b_hang ELSE lenA
      bbgn == IF ovl.a_hang < 0 THEN 0 - ovl.a_hang ELSE 0
      bend == IF ovl.b_hang < 0 THEN lenB ELSE lenB - ovl.b_hang
  IN  /\ ovl.a_iid # ovl.b_iid
      /\ lenA > 0 /\ lenB > 0
      /\ abgn < aend /\ aend <= lenA
      /\ bbgn < bend /\ bend <= lenB
      /\ aend - abgn = bend - bbgn

ovOverlap(a, b, ah, bh, ev) ==
  [a_iid |-> a, b_iid |-> b, a_hang |-> ah, b_hang |-> bh, evalue |-> ev,
   flipped |-> sampleFlipped(ah, bh)]

SampleOverlaps(lens) ==
  { ovl \in { ovOverlap(a, b, ah, bh, ev) :
                a \in Reads, b \in Reads, ah \in Hangs, bh \in Hangs, ev \in Evalues } :
      fitsReads(lens, ovl) }

\* The position of a record in the store's order: by a_iid, then b_iid; the
\* sample lists the overlaps of one pair of reads in one order.
storeRank(ovl) ==
  ((((ovl.a_iid * (NumReads + 1) + ovl.b_iid) * (2 * MaxHang + 1)
       + (ovl.a_hang + MaxHang)) * (2 * MaxHang + 1)
       + (ovl.b_hang + MaxHang)) * (AS_MAX_EVALUE + 1)) + ovl.evalue

isSorted(recs) ==
  \A i \in 1..(Len(recs) - 1) : storeRank(recs[i]) <= storeRank(recs[i + 1])

SampleStores(lens) ==
  { recs \in UNION { [1..n -> SampleOverlaps(lens)] : n \in 0..MaxOvl } : isSorted(recs) }

HeapFills == {0, UINT_MAX}

\* -C not given; -C given and no such file; -C given and the file is there.
CacheStates == { [given |-> FALSE, exists |-> FALSE],
                 [given |-> TRUE,  exists |-> FALSE],
                 [given |-> TRUE,  exists |-> TRUE] }

\* The cache file as a run that streamed the same range wrote it.
cacheOf(recs) == [i \in 1..Len(recs) |-> populate(recs[i])]

\* What a cache file that is there holds: the dump of a run over the same
\* range, or the dump of a run over the whole store.
CacheContents == { cacheOf(rangedStore), cacheOf(ovlStore) }

SampleInputs ==
  /\ seqStore \in [Reads -> SeqLens]
  /\ ovlStore \in SampleStores(seqStore)
  /\ iidMin \in Reads
  /\ iidMax \in iidMin..NumReads
  /\ supplied = rangedStore

(***************************************************************************)
(* Two larger inputs beside the sample.                                    *)
(*  - Two reads of length ScenarioLen and one overlap of erate 0.02 that   *)
(*    spans both reads, stored as one record (1,2) or with its mirror.     *)
(*  - Two reads of length MaxLen joined by Abundant overlaps of erate 0.02 *)
(*    in each direction and one overlap of erate 0.40.                     *)
(*  - A store that is out of date with the read store: read 1 of length    *)
(*    MaxLen has an overlap with read 2, which has since been deleted.     *)
(*  - Two reads of length MaxLen and two overlaps of read 1 on the same    *)
(*    span, of erates 0.005 and 0.035: the estimate for both is 0.005.     *)
(*  - The same out-of-date store with the record of the deleted read: an  *)
(*    overlap of read 2, deleted, with read 1.                             *)
(***************************************************************************)
ScenarioLen == 100
Abundant    == 40

readLengths(len) == [r \in Reads |-> IF r <= 2 THEN len ELSE 0]

repeat(x, n) == [i \in 1..n |-> x]

EndToEndStores ==
  { << ovOverlap(1, 2, 0, 0, 200) >>,
    << ovOverlap(1, 2, 0, 0, 200), ovOverlap(2, 1, 0, 0, 200) >> }

AbundantStore ==
  repeat(ovOverlap(1, 2, 0, 0, 200), Abundant) \o << ovOverlap(1, 2, 0, 0, 4000) >>
    \o repeat(ovOverlap(2, 1, 0, 0, 200), Abundant)

\* Read 1 has length len; every other read is deleted.
partnerDeleted(len) == [r \in Reads |-> IF r = 1 THEN len ELSE 0]

DeletedPartnerStore == << ovOverlap(1, 2, 0, 0, 200) >>

TieStore == << ovOverlap(1, 2, -1, -1, 50), ovOverlap(1, 2, -1, -1, 350) >>

DeletedOwnerStore == << ovOverlap(2, 1, 0, 0, 200) >>

ScenarioInputs ==
  /\ \/ seqStore = readLengths(ScenarioLen) /\ ovlStore \in EndToEndStores
     \/ seqStore = readLengths(MaxLen) /\ ovlStore = AbundantStore
     \/ seqStore = partnerDeleted(MaxLen) /\ ovlStore = DeletedPartnerStore
     \/ seqStore = readLengths(MaxLen) /\ ovlStore = TieStore
     \/ seqStore = partnerDeleted(MaxLen) /\ ovlStore = DeletedOwnerStore
  /\ iidMin = 1
  /\ iidMax = NumReads
  /\ supplied = rangedStore

\* A store whose files do not hold what its index reports: one record of the
\* range is missing, or there is one more.
MismatchStore ==
  << ovOverlap(1, 2, 0, 0, 200), ovOverlap(1, 2, 0, 0, 200), ovOverlap(2, 1, 0, 0, 200) >>

MismatchInputs ==
  /\ seqStore = readLengths(MaxLen)
  /\ ovlStore = MismatchStore
  /\ iidMin = 1
  /\ iidMax = NumReads
  /\ supplied \in { SubSeq(MismatchStore, 1, Len(MismatchStore) - 1),
                     Append(MismatchStore, ovOverlap(2, 1, 0, 0, 4000)) }

(***************************************************************************)
(* The state when main has opened the stores and initialised the profiles. *)
(***************************************************************************)
Init ==
  /\ SampleInputs \/ ScenarioInputs \/ MismatchInputs
  /\ NDEBUG \in BOOLEAN
  /\ heapFill \in HeapFills
  /\ \E c \in CacheStates :
       \E d \in (IF c.exists THEN CacheContents ELSE {<< >>}) :
          ovlCache = [given |-> c.given, exists |-> c.exists, data |-> d]
  /\ readProfile = [iid \in 0..(numIIDs - 1) |-> initialize(seqStore[iid + iidMin])]
  /\ overlapIndex = << >>
  /\ overlaps = << >>
  /\ overlapsMMF = FALSE
  /\ no = 0
  /\ iter = 0
  /\ visited = {}
  /\ outStore = << >>
  /\ pc = "index"
  /\ fault = ""
  /\ nDiscarded = 0 /\ nDiscard = 0 /\ nRemain = 0
  /\ firstRun = [ran |-> FALSE, discarded |-> {}, out |-> << >>]
  /\ planned = << >>
  /\ partitionIdle
  /\ existIdle

(***************************************************************************)
(* main, from the overlap index to the choice of the load.                 *)
(***************************************************************************)
BuildIndex ==
  /\ pc = "index"
  /\ overlapIndex' = [k \in 0..numIIDs |-> buildOverlapIndex(k)]
  /\ IF ~ NDEBUG /\ buildOverlapIndex(numIIDs) # numOverlapsInRange
     THEN /\ pc' = "aborted"
          /\ fault' = "assert(overlapIndex[numIIDs] == numOvls) 661"
          /\ UNCHANGED <<overlaps, overlapsMMF, ovlCache>>
     ELSE IF ovlCache.exists
     THEN \* overlaps = (ESToverlap *)overlapsMMF->get(0)
          /\ overlaps' = ovlCache.data
          /\ overlapsMMF' = TRUE
          /\ pc' = "profile"
          /\ UNCHANGED <<fault, ovlCache>>
     ELSE \* ESTcache = AS_UTL_openOutputFile(ovlCacheName) creates the file
          /\ overlaps' = << >>
          /\ overlapsMMF' = FALSE
          /\ ovlCache' = [ovlCache EXCEPT !.exists = ovlCache.given]
          /\ pc' = "load"
          /\ UNCHANGED fault
  /\ UNCHANGED <<existDB, partition, inputs, readProfile, no, iter, visited, outStore, counters, firstRun, planned>>

\* One turn of the load loop: a block is read, populated and written to the
\* cache.  When the store hands out an empty block before numOvls is reached
\* the loop turns without changing anything: no step is enabled.
LoadBlock ==
  /\ pc = "load"
  /\ no < numOverlapsInRange
  /\ LET ovl == loadBlockOfOverlaps(supplied, no)
         r   == populateBlock(ovl, 1, << >>)
     IN  /\ Len(ovl) > 0
         /\ overlaps' = SubSeq(overlaps \o r.packed, 1,
                               Min(no + Len(r.packed), numOverlapsInRange))
         /\ no' = no + Len(r.packed)
         /\ IF r.bad # 0
            THEN /\ pc' = "aborted"
                 /\ fault' = "assert in ESToverlap::populate"
                 /\ UNCHANGED ovlCache
            ELSE IF no + Len(r.packed) > numOverlapsInRange
            THEN \* overlaps[no++] past new ESToverlap [numOvls]: the process
                 \* dies there, or goes on with memory it has overwritten.
                 /\ \/ pc' = "crashed" /\ fault' = "overlaps[] written past its end 695"
                    \/ UNCHANGED <<pc, fault>>
                 /\ ovlCache' = IF ovlCache.given
                                THEN [ovlCache EXCEPT !.data = @ \o r.packed]
                                ELSE ovlCache
            ELSE /\ ovlCache' = IF ovlCache.given
                                THEN [ovlCache EXCEPT !.data = @ \o r.packed]
                                ELSE ovlCache
                 /\ UNCHANGED <<pc, fault>>
  /\ UNCHANGED <<existDB, partition, inputs, readProfile, overlapIndex, overlapsMMF, iter, visited, outStore,
                 counters, firstRun, planned>>

\* The load loop ends; main goes on to recomputeErrorProfile(..., 0).
LoadDone ==
  /\ pc = "load"
  /\ no >= numOverlapsInRange
  /\ pc' = "profile"
  /\ UNCHANGED <<existDB, partition, inputs, ovlCache, readProfile, overlapIndex, overlaps, overlapsMMF,
                 no, iter, visited, outStore, fault, counters, firstRun, planned>>

(***************************************************************************)
(* The counters nDiscarded, nDiscard and nRemain are locals of             *)
(* recomputeErrorProfile that the work items of the parallel for share and *)
(* bump with ++, with no atomic, critical or reduction clause.  The two    *)
(* work items of the model stand for work items of two chunks of the       *)
(* dynamic schedule, which run on two threads.                             *)
(***************************************************************************)
\* A counter as a work item finds it: the call starts them at 0.
atEntry(c) == IF visited = {} THEN 0 ELSE c

\* The values a counter can hold after a work item has bumped it n times,
\* when the other work items have left it at c.  With bumps of both sides,
\* the unsynchronised read-modify-writes can lose all but one or two.
increments(c, n) ==
  IF n = 0 \/ c = 0 THEN {c + n} ELSE Min(Min(2, n), c)..(c + n)

\* What a work item leaves, given the outcome r of the loop over its slice,
\* the length of its read and the errorMeanU it finds: how the loop ended,
\* the flags it sets and the errorMeanU it writes.
itemOutcome(r, seqLen, errorMeanU) ==
  IF seqLen = 0
    THEN [st |-> "ok", discard |-> {}, errorMeanU |-> errorMeanU]
    ELSE [st |-> r.st, discard |-> r.discard,
          errorMeanU |-> unpackErrorMeanU(memsetErrorMeanU(errorMeanU, seqLen), r.list, seqLen)]

\* What the work item of read iid does when it runs in the current state.
workResult(iid) ==
  itemOutcome(visitSlice(iid, overlapIndex[iid], overlapIndex[iid + 1]),
              readProfile[iid].seqLen, readProfile[iid].errorMeanU)

\* What the iteration will leave for read iid if its work item does what it
\* would do now: the discarded positions of its slice and its errorMeanU.
plannedResult(iid) ==
  [ st         |-> workResult(iid).st,
    flags      |-> { k \in (overlapIndex[iid] + 1)..overlapIndex[iid + 1] :
                       k <= Len(overlaps) /\ overlaps[k].discarded }
                     \cup workResult(iid).discard,
    errorMeanU |-> workResult(iid).errorMeanU ]

\* The work item that also rebuilds errorMeanS of its read, inside the
\* parallel loop.
writeErrorMeanU_fused(profiles, iid, errorMeanU) ==
  [profiles EXCEPT ![iid] = sumErrorMeanS([@ EXCEPT !.errorMeanU = errorMeanU])]

\* memset(readProfile[iid].errorMeanU, ...) and readProfile[iid].errorMeanU[pp]
\* = eEnc: the only stores of a work item into readProfile.
writeErrorMeanU(profiles, iid, errorMeanU) ==
  [profiles EXCEPT ![iid].errorMeanU = errorMeanU]

(***************************************************************************)
(* recomputeErrorProfile(..., iter): the work item of read iid, one        *)
(* iteration of the parallel for.  Work items run in any order.            *)
(***************************************************************************)
ProcessRead(iid) ==
  /\ pc = "profile"
  /\ iid \in (0..(numIIDs - 1)) \ visited
  /\ IF readProfile[iid].seqLen = 0
     THEN \* Deleted read.
          /\ visited' = visited \cup {iid}
          /\ nDiscarded' = atEntry(nDiscarded)
          /\ nDiscard' = atEntry(nDiscard)
          /\ nRemain' = atEntry(nRemain)
          /\ UNCHANGED <<overlaps, readProfile, pc, fault>>
     ELSE \E r \in {visitSlice(iid, overlapIndex[iid], overlapIndex[iid + 1])} :
          LET seqLen == readProfile[iid].seqLen
          IN  /\ overlaps' = markDiscarded(overlaps, r.discard)
              /\ nDiscarded' \in increments(atEntry(nDiscarded), r.skipped)
              /\ nDiscard' \in increments(atEntry(nDiscard), Cardinality(r.discard))
              /\ nRemain' \in increments(atEntry(nRemain), Len(r.list))
              /\ IF r.st # "ok"
                 THEN /\ pc' = r.st
                      /\ fault' = r.why
                      /\ UNCHANGED <<readProfile, visited>>
                 ELSE IF maxHi(r.list) > seqLen /\ ~ NDEBUG
                 THEN /\ pc' = "aborted"
                      /\ fault' = "assert(eRateMap.hi(ii) <= seqLen) 367"
                      /\ UNCHANGED <<readProfile, visited>>
                 ELSE IF maxHi(r.list) > seqLen + 1
                 THEN /\ pc' = "crashed"
                      /\ fault' = "errorMeanU written past its end 372"
                      /\ UNCHANGED <<readProfile, visited>>
                 ELSE /\ readProfile' = writeErrorMeanU(readProfile, iid,
                        unpackErrorMeanU(memsetErrorMeanU(readProfile[iid].errorMeanU, seqLen),
                                         r.list, seqLen))
                      /\ visited' = visited \cup {iid}
                      /\ UNCHANGED <<pc, fault>>
  /\ planned' = IF visited = {} THEN [i \in 0..(numIIDs - 1) |-> plannedResult(i)]
                                ELSE planned
  /\ UNCHANGED <<existDB, partition, inputs, ovlCache, overlapIndex, overlapsMMF, no, iter, outStore, firstRun>>

\* After the parallel for: the sequential loop that rebuilds errorMeanS, the
\* report of the three counters, and the return to main's loop, which calls
\* the next iteration or outputOverlaps.  The counters are locals: they are
\* gone on return.
SumPass ==
  /\ pc = "profile"
  /\ visited = 0..(numIIDs - 1)
  /\ readProfile' = [iid \in 0..(numIIDs - 1) |-> sumErrorMeanS(readProfile[iid])]
  /\ iter' = iter + 1
  /\ visited' = {}
  /\ IF iter + 1 < NumIterations
     THEN UNCHANGED <<pc, no>>
     ELSE pc' = "output" /\ no' = 0
  /\ nDiscarded' = 0 /\ nDiscard' = 0 /\ nRemain' = 0
  /\ UNCHANGED <<existDB, partition, inputs, ovlCache, overlapIndex, overlaps, overlapsMMF, outStore, fault,
                 firstRun, planned>>

(***************************************************************************)
(* outputOverlaps: inpStore is opened anew and no range is set on it, so   *)
(* the loop streams every record of the store.                             *)
(***************************************************************************)
OutputBlock ==
  /\ pc = "output"
  /\ no < Len(ovlStore)
  /\ LET ovl == loadBlockOfOverlaps(ovlStore, no)
         r   == copyBlock(ovl, 1, no, outStore)
     IN  /\ Len(ovl) > 0
         /\ outStore' = r.out
         /\ no' = r.no
         /\ IF r.st # "ok"
            THEN pc' = r.st /\ fault' = r.why
            ELSE UNCHANGED <<pc, fault>>
  /\ UNCHANGED <<existDB, partition, inputs, ovlCache, readProfile, overlapIndex, overlaps, overlapsMMF,
                 iter, visited, counters, firstRun, planned>>

\* The output loop ends; the stores are closed and main exits.
Exit ==
  /\ pc = "output"
  /\ no >= Len(ovlStore)
  /\ pc' = "done"
  /\ UNCHANGED <<existDB, partition, inputs, ovlCache, readProfile, overlapIndex, overlaps, overlapsMMF,
                 no, iter, visited, outStore, fault, counters, firstRun, planned>>

\* The positions of the overlaps whose discarded bit is set.
discardedSet == { k \in 1..Len(overlaps) : overlaps[k].discarded }

\* The program is run once more on the same inputs, now that the run that
\* streamed the store has left the cache file behind.
Rerun ==
  /\ pc = "done"
  /\ ~ overlapsMMF
  /\ ovlCache.given /\ ovlCache.exists
  /\ ~ firstRun.ran
  /\ firstRun' = [ran |-> TRUE, discarded |-> discardedSet, out |-> outStore]
  /\ planned' = << >>
  /\ readProfile' = [iid \in 0..(numIIDs - 1) |-> initialize(seqStore[iid + iidMin])]
  /\ overlapIndex' = << >>
  /\ overlaps' = << >>
  /\ no' = 0
  /\ iter' = 0
  /\ visited' = {}
  /\ outStore' = << >>
  /\ pc' = "index"
  /\ nDiscarded' = 0 /\ nDiscard' = 0 /\ nRemain' = 0
  /\ UNCHANGED <<existDB, partition, inputs, ovlCache, overlapsMMF, fault>>

Next ==
  \/ BuildIndex
  \/ LoadBlock
  \/ LoadDone
  \/ \E iid \in 0..(NumReads - 1) : ProcessRead(iid)
  \/ SumPass
  \/ OutputBlock
  \/ Exit
  \/ Rerun

Spec == Init /\ [][Next]_vars

(***************************************************************************)
(* The partition tool: main (1075-1212), loadReadLengths (812-912) and     *)
(* partitionLength (916-1040).  It cuts the reads of the store into hash   *)
(* blocks and, for each, into reference blocks, and writes one job per     *)
(* pair to the files BAT, JOB and OPT.                                     *)
(***************************************************************************)
PartReads  == 3      \* reads in the store the partition tool is run on
PartLibs   == 2      \* libraries in that store

PartLens   == {0, 1, 2}      \* sequence lengths of its reads
HashBlocks == {1, 3, 6}      \* -hl values
RefBlocks  == {1, 4}         \* -rl values
MinOverlaps == {0, 2}        \* -ol values

\* uint32 batchMax = 1000
batchMax == 1000

SetMin(S) == CHOOSE x \in S : \A y \in S : x <= y
SetMax(S) == CHOOSE x \in S : \A y \in S : x >= y

\* loadReadLengths: the min and max id of the reads of the libraries libs;
\* with no library named the range main has set is left as it is.
libRange(libs) ==
  LET ids == { ii \in 1..PartReads : readLib[ii] \in libs }
  IN  IF libs = {}
        THEN [min |-> 1, max |-> UINT_MAX]
        ELSE [min |-> SetMin(ids \cup {UINT_MAX}), max |-> SetMax(ids \cup {0})]

\* The do-while of a hash block, entered with hashEnd = end: each turn takes
\* the next read and, when it is long enough, adds its length + 1.
RECURSIVE hashScan(_, _, _, _)
hashScan(end, len, reads, bases) ==
  LET e     == end + 1
      short == readLen[e] < minOverlapLength
      l     == IF short THEN len   ELSE len + readLen[e] + 1
      r     == IF short THEN reads ELSE reads + 1
      b     == IF short THEN bases ELSE bases + readLen[e] + 1
  IN  IF l < ovlHashBlockLength /\ e < hashMax
        THEN hashScan(e, l, r, b)
        ELSE [hashEnd |-> e, hashReads |-> r, hashBases |-> b]

\* The do-while of a reference block, entered with refEnd = end.
RECURSIVE refScan(_, _)
refScan(end, len) ==
  LET e == end + 1
      l == IF readLen[e] < minOverlapLength THEN len ELSE len + readLen[e]
  IN  IF l < ovlRefBlockLength /\ e < refMax THEN refScan(e, l) ELSE e

\* libToHash.size() != 0 && libToHash == libToRef
sameLibs == libToHash # {} /\ libToHash = libToRef

\* The test of the while over the reference blocks.
moreRef == refBeg < refMax /\ (refBeg < hashEnd \/ sameLibs)

\* refEnd as the job is written: cut to refMax and to hashEnd.
clipRef(e) ==
  LET e1 == IF e > refMax THEN refMax ELSE e
  IN  IF e1 > hashEnd /\ ~ sameLibs THEN hashEnd ELSE e1

\* The line written to OPT; hashdatalen is 0 when the option is left out.
optLine(e) ==
  [ hashBeg |-> hashBeg, hashEnd |-> hashEnd, refBeg |-> refBeg, refEnd |-> e,
    hashdatalen |-> IF hashReads = 0 THEN 0 ELSE hashBases ]

PartitionInit ==
  /\ readLen \in [0..PartReads -> PartLens]
  /\ readLen[0] = 0
  /\ readLib \in [1..PartReads -> 1..PartLibs]
  /\ libToHash \in SUBSET (1..PartLibs)
  /\ libToRef \in SUBSET (1..PartLibs)
  /\ minOverlapLength \in MinOverlaps
  /\ ovlHashBlockLength \in HashBlocks
  /\ ovlRefBlockLength \in RefBlocks
  /\ hashMin = 1 /\ hashMax = UINT_MAX /\ refMin = 1 /\ refMax = UINT_MAX
  /\ partitionLocals
  /\ step = "start"
  /\ seqStore = << >> /\ ovlStore = << >> /\ supplied = << >>
  /\ iidMin = 1 /\ iidMax = 0
  /\ NDEBUG = FALSE /\ heapFill = 0
  /\ ovlCache = [given |-> FALSE, exists |-> FALSE, data |-> << >>]
  /\ readProfile = << >> /\ overlapIndex = << >> /\ overlaps = << >>
  /\ overlapsMMF = FALSE
  /\ no = 0 /\ iter = 0 /\ visited = {} /\ outStore = << >>
  /\ pc = "idle" /\ fault = ""
  /\ nDiscarded = 0 /\ nDiscard = 0 /\ nRemain = 0
  /\ firstRun = [ran |-> FALSE, discarded |-> {}, out |-> << >>]
  /\ planned = << >>
  /\ existIdle

\* main up to the first test of the while of partitionLength: the ranges
\* from loadReadLengths, cut to numReads, and the first hashBeg and hashEnd.
StartPartition ==
  /\ step = "start"
  /\ LET h  == libRange(libToHash)
         r  == libRange(libToRef)
     IN  /\ hashMin' = h.min
         /\ hashMax' = IF h.max > PartReads THEN PartReads ELSE h.max
         /\ refMin' = r.min
         /\ refMax' = IF r.max > PartReads THEN PartReads ELSE r.max
         /\ hashBeg' = h.min
         /\ hashEnd' = U32(h.min - 1)
  /\ step' = "hash"
  /\ UNCHANGED <<existDB, estimate, readLen, readLib, libToHash, libToRef, minOverlapLength,
                 ovlHashBlockLength, ovlRefBlockLength, refBeg, refEnd, hashReads,
                 hashBases, batchSize, batchName, jobName, BAT, JOB, OPT>>

\* One turn of while (hashBeg < hashMax), up to the while over the
\* reference blocks.
HashBlock ==
  /\ step = "hash"
  /\ hashBeg < hashMax
  /\ \E s \in {hashScan(hashEnd, 0, 0, 0)} :
        /\ hashEnd' = s.hashEnd
        /\ hashReads' = s.hashReads
        /\ hashBases' = s.hashBases
  /\ refBeg' = refMin
  /\ refEnd' = 0
  /\ step' = "ref"
  /\ UNCHANGED <<existDB, estimate, readLen, readLib, libToHash, libToRef, minOverlapLength,
                 ovlHashBlockLength, ovlRefBlockLength, hashMin, hashMax, refMin, refMax,
                 hashBeg, batchSize, batchName, jobName, BAT, JOB, OPT>>

\* One turn of the while over the reference blocks: a job is written.
RefBlock ==
  /\ step = "ref"
  /\ moreRef
  /\ \E e \in {clipRef(refScan(refEnd, 0))} :
        /\ refEnd' = e
        /\ refBeg' = e + 1
        /\ OPT' = Append(OPT, optLine(e))
  /\ BAT' = Append(BAT, batchName)
  /\ JOB' = Append(JOB, jobName)
  /\ IF batchSize + 1 >= batchMax
       THEN batchSize' = 0 /\ batchName' = batchName + 1
       ELSE batchSize' = batchSize + 1 /\ UNCHANGED batchName
  /\ jobName' = jobName + 1
  /\ UNCHANGED <<existDB, estimate, readLen, readLib, libToHash, libToRef, minOverlapLength,
                 ovlHashBlockLength, ovlRefBlockLength, hashMin, hashMax, refMin, refMax,
                 hashBeg, hashEnd, hashReads, hashBases, step>>

\* The reference blocks of the hash block are done: hashBeg = hashEnd + 1.
NextHash ==
  /\ step = "ref"
  /\ ~ moreRef
  /\ hashBeg' = hashEnd + 1
  /\ step' = "hash"
  /\ UNCHANGED <<existDB, estimate, readLen, readLib, libToHash, libToRef, minOverlapLength,
                 ovlHashBlockLength, ovlRefBlockLength, hashMin, hashMax, refMin, refMax,
                 hashEnd, refBeg, refEnd, hashReads, hashBases, batchSize, batchName,
                 jobName, BAT, JOB, OPT>>

\* while (hashBeg < hashMax) ends; main closes the files and exits.
PartitionExit ==
  /\ step = "hash"
  /\ ~ (hashBeg < hashMax)
  /\ step' = "done"
  /\ UNCHANGED <<existDB, estimate, readLen, readLib, libToHash, libToRef, minOverlapLength,
                 ovlHashBlockLength, ovlRefBlockLength, hashMin, hashMax, refMin, refMax,
                 hashBeg, hashEnd, refBeg, refEnd, hashReads, hashBases, batchSize,
                 batchName, jobName, BAT, JOB, OPT>>

PartitionNext ==
  \/ StartPartition
  \/ HashBlock
  \/ RefBlock
  \/ NextHash
  \/ PartitionExit

PartitionSpec == PartitionInit /\ [][PartitionNext]_vars

(***************************************************************************)
(* existDB::createFromMeryl (meryl/libkmer/existDB-create-from-meryl.C):   *)
(* the table of the mers of a meryl database whose count lies in lo..hi,   *)
(* built in two passes over the database: the first counts the mers of     *)
(* each bucket, the second places them.  A mer of merSize bases is the     *)
(* number whose base-4 digits are its bases (A = 0, C = 1, G = 2, T = 3).  *)
(***************************************************************************)
MaxMers   == 3      \* mers in a sampled meryl database
WideBits  == 6      \* prefixSize of the database with a table of 64 buckets

MerSample  == {0, 1, 3, 14, 15}      \* AA, AC, AT, TG, TT
MerCounts  == {1, 3}
WideSample == <<0, 1, 27, 62, 63>>   \* AAA, AAC, CGT, TTG, TTT

\* The i-th smallest element of S.
nth(S, i) == CHOOSE x \in S : Cardinality({ y \in S : y < x }) = i - 1

\* The meryl databases that hold the mers of S: the mers in order, each with
\* a count.
streamsOf(S) ==
  { [i \in 1..Cardinality(S) |-> [mer |-> nth(S, i), count |-> c[nth(S, i)]]] :
      c \in [S -> MerCounts] }

\* a ^ b
RECURSIVE Xor(_, _)
Xor(a, b) ==
  IF a = 0 THEN b
  ELSE IF b = 0 THEN a
  ELSE ((a + b) % 2) + 2 * Xor(a \div 2, b \div 2)

\* uint64 tableSizeInEntries = uint64ONE << tblBits
tableSizeInEntries == 2^tblBits

\* _shift1 = 2 * _merSizeInBases - tblBits; _shift2 = _shift1 / 2
shift1 == 2 * merSize - tblBits
shift2 == shift1 \div 2

\* HASH(k): ((k >> _shift1) ^ (k >> _shift2) ^ k) & _mask1
HASH(k) == Xor(Xor(k \div 2^shift1, k \div 2^shift2), k) % 2^tblBits

\* CHECK(k): k & _mask2
CHECK(k) == k % 2^shift1

\* kMer::reverseComplement on a mer of n bases.
RECURSIVE reverseComplement(_, _)
reverseComplement(k, n) ==
  IF n = 0 THEN 0
  ELSE (3 - (k % 4)) * 4^(n - 1) + reverseComplement(k \div 4, n - 1)

\* _isCanonical = flags & existDBcanonical; _isForward = flags & existDBforward
isCanonical == "canonical" \in flags
isForward   == "forward" \in flags

\* (lo <= M->theCount()) && (M->theCount() <= hi)
inCountRange(m) == loCount <= m.count /\ m.count <= hiCount

\* The mers that a pass handles for the record m of the database, in the
\* order of the code: the forward mer when _isForward, then the smaller of
\* the forward mer and its reverse complement when _isCanonical.
mersOf(m) ==
  LET r == reverseComplement(m.mer, merSize)
  IN  (IF isForward THEN << m.mer >> ELSE << >>) \o
      (IF isCanonical THEN << IF m.mer < r THEN m.mer ELSE r >> ELSE << >>)

\* What the counting pass does for the record m.
countedOf(m) ==
  IF inCountRange(m)
    THEN [i \in DOMAIN mersOf(m) |-> <<HASH(mersOf(m)[i]), CHECK(mersOf(m)[i])>>]
    ELSE << >>

\* What the placement pass does for the record m.
placedOf(m) ==
  IF inCountRange(m)
    THEN [i \in DOMAIN mersOf(m) |-> <<HASH(mersOf(m)[i]), CHECK(mersOf(m)[i])>>]
    ELSE << >>

\* The entries of seq that fall into bucket h.
inBucket(seq, h) == Cardinality({ i \in DOMAIN seq : seq[i][1] = h })

\* _hshWidth of a compressed table: the least width >= 1 with
\* _numMers + 1 <= 2^width.
widthFor(n) == CHOOSE w \in 1..31 : n + 1 <= 2^w /\ (w = 1 \/ n + 1 > 2^(w - 1))

\* _hashTableWords
wordsFor(n) ==
  IF compressedHash
    THEN ((tableSizeInEntries + 2) * widthFor(n)) \div 64 + 1
    ELSE tableSizeInEntries + 2

\* setDecodedValue(_hashTable, ptr, _hshWidth, v): the entry keeps the low
\* _hshWidth bits of v.  Without compression the entry is a uint64.
hashEntry(v) == IF compressedHash THEN v % 2^hshWidth ELSE v

\* The sum of countingTable[0 .. i-1].
RECURSIVE begPosition(_, _)
begPosition(tbl, i) == IF i = 0 THEN 0 ELSE begPosition(tbl, i - 1) + tbl[i - 1]

\* insertMer(hsh, chk, cnt, countingTable) for the calls hs in order:
\* _buckets[countingTable[hsh]] = chk; countingTable[hsh]++.  The result
\* is [tbl, bkt].  The positions stay below _numMers, inside _buckets.
RECURSIVE insertMers(_, _, _)
insertMers(s, hs, i) ==
  IF i > Len(hs) THEN s
  ELSE LET pos == s.tbl[hs[i][1]]
       IN  insertMers([ tbl |-> [s.tbl EXCEPT ![hs[i][1]] = @ + 1],
                        bkt |-> [s.bkt EXCEPT ![pos] = hs[i][2]] ],
                      hs, i + 1)

\* The databases and arguments of the sample: mers of 2 bases.
ExistSample ==
  /\ merSize = 2
  /\ tblBits \in {1, 2}
  /\ \E S \in { X \in SUBSET MerSample : Cardinality(X) <= MaxMers } :
        merStream \in streamsOf(S)

\* A database of mers of 3 bases with a table of 64 buckets.
ExistWide ==
  /\ merSize = 3
  /\ tblBits = WideBits
  /\ \E c \in [1..Len(WideSample) -> MerCounts] :
        merStream = [i \in 1..Len(WideSample) |-> [mer |-> WideSample[i], count |-> c[i]]]

ExistInit ==
  /\ ExistSample \/ ExistWide
  /\ loCount \in {1, 2}
  /\ hiCount \in {2, 3}
  /\ flags \in SUBSET {"canonical", "forward"}
  /\ compressedHash \in BOOLEAN
  /\ existLocals
  /\ stage = "start"
  /\ NDEBUG \in BOOLEAN
  /\ heapFill \in HeapFills
  /\ seqStore = << >> /\ ovlStore = << >> /\ supplied = << >>
  /\ iidMin = 1 /\ iidMax = 0
  /\ ovlCache = [given |-> FALSE, exists |-> FALSE, data |-> << >>]
  /\ readProfile = << >> /\ overlapIndex = << >> /\ overlaps = << >>
  /\ overlapsMMF = FALSE
  /\ no = 0 /\ iter = 0 /\ visited = {} /\ outStore = << >>
  /\ pc = "idle" /\ fault = ""
  /\ nDiscarded = 0 /\ nDiscard = 0 /\ nRemain = 0
  /\ firstRun = [ran |-> FALSE, discarded |-> {}, out |-> << >>]
  /\ planned = << >>
  /\ partitionIdle

\* createFromMeryl up to the first pass: the counting table is cleared and
\* the flags are tested.
ExistStart ==
  /\ stage = "start"
  /\ countingTable' = [i \in 0..tableSizeInEntries |-> 0]
  /\ numMers' = 0
  /\ hshWidth' = 0
  /\ nextMer' = 0
  /\ stage' = IF ~ NDEBUG /\ Cardinality(flags) # 1 THEN "aborted" ELSE "count"
  /\ UNCHANGED <<estimate, partition, merSize, tblBits, merStream, loCount, hiCount,
                 flags, compressedHash, hashTableWords, hashTable, buckets, counted,
                 placed>>

\* One turn of the first while (M->nextMer()).
CountMer ==
  /\ stage = "count"
  /\ nextMer < Len(merStream)
  /\ \E hs \in {countedOf(merStream[nextMer + 1])} :
        /\ countingTable' = [h \in DOMAIN countingTable |->
                               countingTable[h] + inBucket(hs, h)]
        /\ numMers' = numMers + Len(hs)
        /\ counted' = counted \o hs
  /\ nextMer' = nextMer + 1
  /\ UNCHANGED <<estimate, partition, merSize, tblBits, merStream, loCount, hiCount,
                 flags, compressedHash, hshWidth, hashTableWords, hashTable, buckets,
                 placed, stage>>

\* The first pass is over: the widths and sizes are set, _hashTable and
\* _buckets are allocated, and the last four words of _hashTable are set
\* to 0.  When _hashTable has fewer than four words, the stores land before
\* it: the process dies, or goes on, with nothing it uses overwritten or
\* with a 0 in a cell of the counting table, which is on the same heap.
Allocate ==
  /\ stage = "count"
  /\ nextMer = Len(merStream)
  /\ hshWidth' = IF compressedHash THEN widthFor(numMers) ELSE hshWidth
  /\ hashTableWords' = wordsFor(numMers)
  /\ hashTable' = [i \in 0..tableSizeInEntries |->
                     IF ~ compressedHash /\ i >= wordsFor(numMers) - 4 THEN 0 ELSE heapFill]
  /\ buckets' = [i \in 0..(numMers + 1) |-> heapFill]
  /\ IF wordsFor(numMers) >= 4
       THEN stage' = "offset" /\ UNCHANGED countingTable
       ELSE \/ stage' = "crashed" /\ UNCHANGED countingTable
            \/ stage' = "offset" /\ UNCHANGED countingTable
            \/ /\ stage' = "offset"
               /\ \E i \in 0..tableSizeInEntries :
                     /\ countingTable[i] # 0
                     /\ countingTable' = [countingTable EXCEPT ![i] = 0]
  /\ UNCHANGED <<estimate, partition, merSize, tblBits, merStream, loCount, hiCount,
                 flags, compressedHash, numMers, nextMer, counted, placed>>

\* The offset pass: each entry of the hash table is the start of its
\* bucket, and the counting table is reset to the same starts.  Then the
\* database is opened again.
OffsetPass ==
  /\ stage = "offset"
  /\ hashTable' = [i \in 0..tableSizeInEntries |-> hashEntry(begPosition(countingTable, i))]
  /\ countingTable' = [i \in 0..tableSizeInEntries |->
                         IF i < tableSizeInEntries THEN begPosition(countingTable, i)
                                                   ELSE countingTable[i]]
  /\ nextMer' = 0
  /\ stage' = "place"
  /\ UNCHANGED <<estimate, partition, merSize, tblBits, merStream, loCount, hiCount,
                 flags, compressedHash, numMers, hshWidth, hashTableWords, buckets,
                 counted, placed>>

\* One turn of the second while (M->nextMer()).
PlaceMer ==
  /\ stage = "place"
  /\ nextMer < Len(merStream)
  /\ \E hs \in {placedOf(merStream[nextMer + 1])} :
        \E s \in {insertMers([tbl |-> countingTable, bkt |-> buckets], hs, 1)} :
           /\ countingTable' = s.tbl
           /\ buckets' = s.bkt
           /\ placed' = placed \o hs
  /\ nextMer' = nextMer + 1
  /\ UNCHANGED <<estimate, partition, merSize, tblBits, merStream, loCount, hiCount,
                 flags, compressedHash, numMers, hshWidth, hashTableWords, hashTable,
                 counted, stage>>

\* The second pass is over; createFromMeryl returns true.
ExistDone ==
  /\ stage = "place"
  /\ nextMer = Len(merStream)
  /\ stage' = "done"
  /\ UNCHANGED <<estimate, partition, merSize, tblBits, merStream, loCount, hiCount,
                 flags, compressedHash, countingTable, numMers, hshWidth,
                 hashTableWords, hashTable, buckets, nextMer, counted, placed>>

ExistNext ==
  \/ ExistStart
  \/ CountMer
  \/ Allocate
  \/ OffsetPass
  \/ PlaceMer
  \/ ExistDone

ExistSpec == ExistInit /\ [][ExistNext]_vars

(***************************************************************************)
(* Properties.                                                             *)
(***************************************************************************)
activeIIDs == 0..(numIIDs - 1)

\* The positions (1-based) of the slice of read iid that hold a record.
slice(iid) ==
  { k \in 1..Len(overlaps) : overlapIndex[iid] < k /\ k <= overlapIndex[iid + 1] }


\* recomputeErrorProfile(..., 0) has returned and iteration 1 has not started.
afterIteration0 == pc = "profile" /\ iter = 1 /\ visited = {}

\* The work item of read iid has finished in the running iteration.
itemDone(iid) == pc = "profile" /\ iid \in visited

\* C1: once an overlap's discarded flag is true, no step of the run (load,
\* the four iterations, the output pass) sets it back to false.  The start
\* of another process, after the run is done, is not a step of the run.
C1_MonotoneDiscard ==
  [][pc # "done" =>
       \A k \in 1..Len(overlaps) :
          overlaps[k].discarded => (k <= Len(overlaps') /\ overlaps'[k].discarded)]_vars

\* A run that discarded an overlap and went on to its end.
C1_Witness == pc = "done" /\ discardedSet # {}

\* C2: iteration 0 never discards: while iteration 0 runs and when it has
\* returned, the discarded overlaps are those that were discarded at the load.
C2_Iteration0NoDiscard ==
  (iter = 0 \/ afterIteration0) =>
     \A k \in discardedSet : overlapsMMF /\ ovlCache.data[k].discarded

\* Iteration 0 has returned and left an overlap that the tolerance check of
\* iteration 1 rejects.
C2_Witness ==
  /\ afterIteration0
  /\ \E iid \in activeIIDs : \E k \in slice(iid) :
       LET est == computeEstimatedErate(ESToverlapSpan(overlaps[k]))
       IN  /\ readProfile[iid].seqLen > 0
           /\ est.st = "ok"
           /\ exceedsEstimate(est.est, overlaps[k].erate)

\* The mean error of base p of read id that the previous iteration left in
\* errorMeanS (cells 0..seqLen-1 hold the running sums of errorMeanU).
previousMean(id, p) ==
  IF p = 0 THEN errorMeanSAt(id, 0)
           ELSE errorMeanSAt(id, p) - errorMeanSAt(id, p - 1)

\* About 0.01: between 0.005 and 0.015.
aboutOnePercent(x) == 50 <= x /\ x <= 150

\* The two profiles are about 0.01 per base over the spans of the overlap.
lowErrorProfiles(ovl) ==
  /\ inWindow(ovl.a_iid) /\ inWindow(ovl.b_iid)
  /\ ovl.a_beg < ovl.a_end /\ ovl.a_end <= seqStore[ovl.a_iid]
  /\ ovl.b_beg < ovl.b_end /\ ovl.b_end <= seqStore[ovl.b_iid]
  /\ \A p \in ovl.a_beg..(ovl.a_end - 1) : aboutOnePercent(previousMean(ovl.a_iid, p))
  /\ \A p \in ovl.b_beg..(ovl.b_end - 1) : aboutOnePercent(previousMean(ovl.b_iid, p))

\* C3: an overlap of erate 0.40 between two reads whose profiles are about
\* 0.01 per base over its spans is discarded by the work item of iteration 1.
C3_DiscardScenario ==
  \A iid \in activeIIDs :
    (itemDone(iid) /\ iter = 1) =>
       \A k \in slice(iid) :
         (overlaps[k].erate = 4000 /\ lowErrorProfiles(ESToverlapSpan(overlaps[k])))
            => overlaps[k].discarded

\* The input of the end-to-end scenario: two reads of length ScenarioLen and
\* one overlap of erate 0.02 over both of them.
endToEnd == seqStore = readLengths(ScenarioLen)

\* C4: in the end-to-end scenario the overlap is never discarded, the run
\* does not stop early, and at its end the record is in the output store.
C4_EndToEndRetention ==
  endToEnd =>
     /\ discardedSet = {}
     /\ pc \notin {"aborted", "crashed"}
     /\ pc = "done" => outStore = ovlStore

\* The per-read phase of iteration 0 has written the profile of read iid and
\* no later work item has overwritten it.
profileOfIteration0(iid) ==
  \/ iter = 0 /\ iid \in visited
  \/ pc = "profile" /\ iter = 1 /\ iid \notin visited

\* errorMeanU of read iid holds x at every base.
meanEverywhere(iid, x) ==
  \A p \in 0..(readProfile[iid].seqLen - 1) : readProfile[iid].errorMeanU[p] = x

\* The quantised value of 0.01.
onePercent == AS_OVS_encodeEvalue(100, 1)

\* C5 as stated: in the end-to-end scenario, after iteration 0 the mean error
\* of both reads is the quantised 0.01 at every base.
C5_BothProfiles ==
  endToEnd =>
     \A iid \in {0, 1} : profileOfIteration0(iid) => meanEverywhere(iid, onePercent)

\* C5 as amended: after iteration 0 the mean error is the quantised 0.01 at
\* every base of a read that is the a read of a record of the store, and 0 at
\* every base of a read that is the a read of none.
C5_ProfileOfARead ==
  endToEnd =>
     \A iid \in {0, 1} :
        profileOfIteration0(iid) =>
           IF numOverlapsPerRead(iid + iidMin) > 0
           THEN meanEverywhere(iid, onePercent)
           ELSE meanEverywhere(iid, 0)

\* Iteration 0 has run for both reads on the store that holds the one record.
C5_Witness ==
  /\ endToEnd
  /\ Len(ovlStore) = 1
  /\ afterIteration0
  /\ readProfile[0].errorMeanU[ScenarioLen - 1] = onePercent

\* The records of the original store at the positions whose overlap is not
\* discarded, in store order.
retainedRecords ==
  LET idx == SelectSeq([i \in 1..Len(ovlStore) |-> i],
                       LAMBDA i : i <= Len(overlaps) /\ ~ overlaps[i].discarded)
  IN  [j \in 1..Len(idx) |-> ovlStore[idx[j]]]

\* C6: when outputOverlaps has returned, the output store holds exactly the
\* records of the original store whose overlap is not discarded, in order.
C6_OutputFilter == pc = "done" => outStore = retainedRecords

\* A finished run that dropped one record and wrote another.
C6_Witness ==
  /\ pc = "done"
  /\ discardedSet # {}
  /\ outStore # << >>

\* C7: for every active range the output pass walks the original store and
\* the overlap array in lock-step: as many records as overlaps, each with the
\* identifiers of its overlap; no identifier assertion fails and overlaps[]
\* is not read past its end.
C7_OutputLockStep ==
  /\ fault \notin { "overlaps[] read past its end 447",
                    "assert(ovl[xx].a_iid == a_iid) 450",
                    "assert(ovl[xx].b_iid == b_iid) 451" }
  /\ pc \in {"output", "done"} =>
       /\ Len(ovlStore) = Len(overlaps)
       /\ \A i \in 1..Len(ovlStore) :
            /\ ovlStore[i].a_iid = overlaps[i].a_iid
            /\ ovlStore[i].b_iid = b_iid_of(overlaps[i])

\* Base p of read iid lies in the a span of an overlap of the read's slice
\* that is not discarded.
coveredBase(iid, p) ==
  \E k \in slice(iid) :
     /\ ~ overlaps[k].discarded
     /\ ESToverlapSpan(overlaps[k]).a_beg <= p
     /\ p < ESToverlapSpan(overlaps[k]).a_end

\* C8: after the work item of a read, every base of the read that no
\* surviving overlap covers has mean error 0.
C8_DepthZeroDefault ==
  \A iid \in activeIIDs :
     itemDone(iid) =>
        \A p \in 0..(readProfile[iid].seqLen - 1) :
           ~ coveredBase(iid, p) => readProfile[iid].errorMeanU[p] = 0

\* A base that an overlap covered in iteration 0, with a mean error above 0,
\* and that no overlap covers any more since that overlap was discarded.
C8_Witness ==
  \E iid \in activeIIDs :
     /\ itemDone(iid)
     /\ iter >= 1
     /\ \E p \in 0..(readProfile[iid].seqLen - 1) :
          /\ ~ coveredBase(iid, p)
          /\ \E k \in slice(iid) :
               /\ overlaps[k].discarded
               /\ overlaps[k].erate > 0
               /\ ESToverlapSpan(overlaps[k]).a_beg <= p
               /\ p < ESToverlapSpan(overlaps[k]).a_end

\* C9: populate trips none of its assertions, leaves discarded false, and the
\* packed fields decode to the values of the record it was given.
C9_PopulateRoundTrip ==
  /\ fault # "assert in ESToverlap::populate"
  /\ (pc = "load" /\ ~ overlapsMMF) =>
        \A k \in 1..Len(overlaps) :
           /\ overlaps[k].a_iid = rangedStore[k].a_iid
           /\ b_iid_of(overlaps[k]) = rangedStore[k].b_iid
           /\ overlaps[k].a_hang = rangedStore[k].a_hang
           /\ overlaps[k].b_hang = rangedStore[k].b_hang
           /\ overlaps[k].erate = rangedStore[k].evalue
           /\ overlaps[k].flipped = rangedStore[k].flipped
           /\ ~ overlaps[k].discarded

\* The hangs of overlap e fit the lengths that the read store holds for its
\* two reads.
validHangs(e) ==
  /\ b_iid_of(e) \in Reads
  /\ fitsReads(seqStore, [a_iid |-> e.a_iid, b_iid |-> b_iid_of(e),
                          a_hang |-> e.a_hang, b_hang |-> e.b_hang])

\* C10: every span that a work item constructs (one per overlap of the slice
\* of a non-deleted active read that is not discarded) is well formed for
\* the lengths of its two reads, when the hangs of the stored overlap fit
\* the lengths that the read store holds.
C10_SpanWellFormed ==
  pc = "profile" =>
     \A iid \in activeIIDs : \A k \in slice(iid) :
        (readProfile[iid].seqLen > 0 /\ ~ overlaps[k].discarded /\ validHangs(overlaps[k])) =>
           LET ovl == ESToverlapSpan(overlaps[k])
           IN  /\ ovl.a_beg < ovl.a_end
               /\ ovl.b_beg < ovl.b_end
               /\ ovl.a_end <= seqStore[ovl.a_iid]
               /\ ovl.b_end <= seqStore[ovl.b_iid]

\* Both regions of a span are non-empty and run forward.
wellFormedSpan(ovl) == ovl.a_beg < ovl.a_end /\ ovl.b_beg < ovl.b_end

\* C11: an overlap of a non-deleted active read whose span has a_beg >= a_end
\* or b_beg >= b_end ends the process in the iteration that visits it,
\* iteration 0 included: when the work item of a read has run to its end, in
\* any iteration, every overlap of its slice has a well-formed span (none was
\* fed to the aggregator, marked discarded or kept).  The overlaps looked at
\* are those of the read itself whose partner is a read of the active range.
C11_SpanViolationFatal ==
  \A iid \in activeIIDs :
     (itemDone(iid) /\ readProfile[iid].seqLen > 0) =>
        \A k \in slice(iid) :
           (overlaps[k].a_iid = iid + iidMin /\ inWindow(b_iid_of(overlaps[k]))) =>
              wellFormedSpan(ESToverlapSpan(overlaps[k]))

\* C12: when the cache file that is mapped holds a number of records other
\* than the store's count for the active range, the process aborts before any
\* iteration of recomputeErrorProfile runs.
C12_CacheLengthCheck ==
  (overlapsMMF /\ Len(overlaps) # numOverlapsInRange) =>
     (pc = "aborted" /\ iter = 0 /\ visited = {})

\* C13: a run that takes the overlap array from the cache file that a run
\* streaming the same store over the same range has written ends as that run
\* did: with the same discard set and the same records in the output store.
C13_CacheIndependence ==
  (firstRun.ran /\ pc \in {"done", "aborted", "crashed"}) =>
     /\ pc = "done"
     /\ discardedSet = firstRun.discarded
     /\ outStore = firstRun.out

\* C14: while the overlap array is the mapped cache file, no step stores to
\* it: the array stays what the file holds and no store to it is attempted.
C14_CacheReadOnly ==
  /\ fault # "store to the read-only mapping 339"
  /\ overlapsMMF => overlaps = ovlCache.data

\* The number of overlaps in the slices of the non-deleted reads among the
\* first n active reads.
RECURSIVE liveSliceTotal(_)
liveSliceTotal(n) ==
  IF n = 0 THEN 0
  ELSE liveSliceTotal(n - 1)
         + (IF readProfile[n - 1].seqLen = 0 THEN 0
            ELSE overlapIndex[n] - overlapIndex[n - 1])

\* C15: whatever the interleaving of the work items, no increment of the
\* counters is lost: a work item that runs to its end raises nDiscard by the
\* number of overlaps whose discarded flag it has turned from false to true,
\* and when the iteration reports, nDiscarded + nDiscard + nRemain is the
\* number of overlaps in the slices of the non-deleted active reads.
C15_DiscardCountsExact ==
  [][ /\ (pc = "profile" /\ visited' # visited /\ visited' # {}) =>
           nDiscard' - atEntry(nDiscard) = Cardinality(discardedSet' \ discardedSet)
      /\ (pc = "profile" /\ iter' = iter + 1) =>
           nDiscarded + nDiscard + nRemain = liveSliceTotal(numIIDs)
    ]_vars

\* The overlaps of the slice of read iid in the array ovs that are not
\* discarded and whose a span contains base p.
covering(ovs, iid, p) ==
  { k \in slice(iid) :
      /\ ~ ovs[k].discarded
      /\ ESToverlapSpan(ovs[k]).a_beg <= p
      /\ p < ESToverlapSpan(ovs[k]).a_end }

\* The sum of the erates of the overlaps of ovs at the positions of S in lo..hi.
RECURSIVE erateSum(_, _, _, _)
erateSum(ovs, S, lo, hi) ==
  IF lo > hi THEN 0
  ELSE IF lo = hi THEN (IF lo \in S THEN ovs[lo].erate ELSE 0)
  ELSE LET mid == (lo + hi) \div 2
       IN  erateSum(ovs, S, lo, mid) + erateSum(ovs, S, mid + 1, hi)

\* The quantised mean at base p of read iid: the sum of erate / 2 over the
\* covering overlaps, divided by their number; 0 when there is none.
aggregatedMean(ovs, iid, p) ==
  LET S == covering(ovs, iid, p)
  IN  IF S = {} THEN 0
      ELSE AS_OVS_encodeEvalue(erateSum(ovs, S, 1, Len(ovs)), 2 * Cardinality(S))

\* C16: in an iteration with index >= 1, the work item of a read marks an
\* overlap that was not discarded as discarded exactly when
\* estimate + 0.03 < erate, strictly (on equality the overlap is kept); the
\* profile it writes is aggregated from the overlaps it kept, and from none of
\* those it has just discarded.
C16_DiscardRule ==
  [][ \A iid \in 0..(NumReads - 1) :
        (pc = "profile" /\ iter >= 1 /\ iid \notin visited /\ iid \in visited'
           /\ readProfile[iid].seqLen > 0) =>
          /\ \A k \in slice(iid) :
               ~ overlaps[k].discarded =>
                  (overlaps'[k].discarded <=>
                     computeEstimatedErate(ESToverlapSpan(overlaps[k])).est + ERATE_TOLERANCE
                        < overlaps[k].erate)
          /\ \A p \in 0..(readProfile[iid].seqLen - 1) :
               readProfile'[iid].errorMeanU[p] = aggregatedMean(overlaps', iid, p)
    ]_vars

\* The rebuild pass of an iteration has run and no work item has run since.
afterRebuild ==
  iter >= 1 /\ ((pc = "profile" /\ visited = {}) \/ pc \in {"output", "done"})

\* C17: after the rebuild pass of an iteration, for every active read with
\* seqLen > 0, errorMeanS[0] = 0 and errorMeanS[k] = errorMeanS[k-1] +
\* errorMeanU[k-1] for every k in 1..seqLen.
C17_PrefixSum ==
  afterRebuild =>
     \A iid \in activeIIDs :
        readProfile[iid].seqLen > 0 =>
           /\ readProfile[iid].errorMeanS[0] = 0
           /\ \A k \in 1..readProfile[iid].seqLen :
                readProfile[iid].errorMeanS[k] =
                   readProfile[iid].errorMeanS[k - 1] + readProfile[iid].errorMeanU[k - 1]

\* The sum of the mean error of the read with id id over the bases [beg, end).
spanSum(id, beg, end) == sumCells(readProfile[profileIndex(id)].errorMeanU, beg, end - 1)

\* C18: at the start of an iteration with index >= 1, when every errorMeanU
\* is that of the iteration before, the estimate of an overlap is the half of
\* SA + SB, the sums of the mean error of read a over [a_beg, a_end) and of
\* read b over [b_beg, b_end).  The halves are taken in integers, so the
\* estimate may be below the half of the sum by one unit of the evalue.  The
\* overlaps looked at are those of the read itself, with a partner in the
\* active range and hangs that fit the lengths of the two reads.
C18_EstimateHalfSum ==
  (pc = "profile" /\ iter >= 1 /\ visited = {}) =>
     \A iid \in activeIIDs : \A k \in slice(iid) :
        (/\ readProfile[iid].seqLen > 0
         /\ ~ overlaps[k].discarded
         /\ overlaps[k].a_iid = iid + iidMin
         /\ inWindow(b_iid_of(overlaps[k]))
         /\ validHangs(overlaps[k])) =>
           LET ovl == ESToverlapSpan(overlaps[k])
               est == computeEstimatedErate(ovl)
               SA  == spanSum(ovl.a_iid, ovl.a_beg, ovl.a_end)
               SB  == spanSum(ovl.b_iid, ovl.b_beg, ovl.b_end)
           IN  /\ est.st = "ok"
               /\ 2 * est.est <= SA + SB
               /\ SA + SB <= 2 * est.est + 2


\* The example of the aggregation: two entries over [0, 10) of summed weight
\* 6 and one entry over [5, 15) of weight 4.  An entry holds twice its weight.
exampleList ==
  << [lo |-> 0, len |-> 10, erate |-> 6], [lo |-> 0, len |-> 10, erate |-> 6],
     [lo |-> 5, len |-> 10, erate |-> 8] >>

\* C19: after the work item of an active read, every base p covered by D >= 1
\* surviving overlaps of the read, whose a spans contain p, has errorMeanU[p]
\* equal to the quantised W / D, W being the sum of erate / 2 over those D
\* overlaps; and the example gives depth 3 and weight 10 on [5, 10), mean 3
\* on [0, 5) and mean 4 on [10, 15).
C19_PerBaseMean ==
  /\ \A iid \in 0..(NumReads - 1) :
       (itemDone(iid) /\ readProfile[iid].seqLen > 0) =>
          \A p \in 0..(readProfile[iid].seqLen - 1) :
             covering(overlaps, iid, p) # {} =>
                readProfile[iid].errorMeanU[p] = aggregatedMean(overlaps, iid, p)
  /\ \A p \in 5..9 : depth(exampleList, p) = 3 /\ value2(exampleList, p) = 2 * 10
  /\ \A p \in 0..4 : depth(exampleList, p) = 2 /\ eEnc(exampleList, p) = 3
  /\ \A p \in 10..14 : depth(exampleList, p) = 1 /\ eEnc(exampleList, p) = 4

\* A work item has left a base covered by two surviving overlaps of different
\* erates, with their quantised mean in errorMeanU.
C19_Witness ==
  \E iid \in 0..(NumReads - 1) :
    /\ itemDone(iid) /\ readProfile[iid].seqLen > 0
    /\ \E p \in 0..(readProfile[iid].seqLen - 1) :
         /\ Cardinality(covering(overlaps, iid, p)) >= 2
         /\ \E j, k \in covering(overlaps, iid, p) : overlaps[j].erate # overlaps[k].erate
         /\ readProfile[iid].errorMeanU[p] = aggregatedMean(overlaps, iid, p)
         /\ readProfile[iid].errorMeanU[p] > 0

\* The errorMeanS arrays of all the reads.
errorSums == [iid \in DOMAIN readProfile |-> readProfile[iid].errorMeanS]

\* The order of the phases in a step of one run: the loop of main and the two
\* loops of recomputeErrorProfile.
phaseOrder ==
  /\ (pc # "done" /\ errorSums' # errorSums) =>
        pc = "profile" /\ visited = 0..(numIIDs - 1) /\ iter' = iter + 1
  /\ (pc = "profile" /\ visited' # visited /\ visited' # {}) =>
        iter \in 0..(NumIterations - 1) /\ iter' = iter /\ errorSums' = errorSums
  /\ (pc # "done" /\ iter' # iter) =>
        pc = "profile" /\ visited = 0..(numIIDs - 1) /\ iter' = iter + 1 /\ visited' = {}
  /\ (pc # "output" /\ pc' = "output") => pc = "profile" /\ iter' = NumIterations
  /\ (pc = "profile" /\ iter' = NumIterations) => pc' = "output"
  /\ pc = "output" => pc' \in {"output", "done", "aborted", "crashed"} /\ iter' = iter
  /\ pc' = "done" => iter' = NumIterations

\* The cells of errorMeanS that computeEstimatedErate reads for ovl, as
\* <<read id, index>>.
cellsRead(ovl) ==
  { <<ovl.a_iid, ovl.a_beg>>, <<ovl.a_iid, ovl.a_end>>,
    <<ovl.b_iid, ovl.b_beg>>, <<ovl.b_iid, ovl.b_end>> }

\* The rebuild pass assigns errorMeanS[c] of the read with this id: the read is
\* in the window and c < seqLen.
rebuilt(id, c) == inWindow(id) /\ 0 <= c /\ c < readProfile[profileIndex(id)].seqLen

\* C20: the run performs exactly 4 iterations, 0 to 3 in that order, and then
\* one output pass; within an iteration no errorMeanS is modified until the
\* work items of all the active reads have finished, and the rebuild of all
\* the errorMeanS completes before any work item of the next iteration; so
\* every estimate of iteration k >= 1 reads only errorMeanS values that the
\* rebuild pass of iteration k - 1 produced.
C20_PhaseOrdering ==
  [][ /\ phaseOrder
      /\ \A iid \in 0..(NumReads - 1) :
           (pc = "profile" /\ iter >= 1 /\ iid \notin visited /\ iid \in visited'
              /\ readProfile[iid].seqLen > 0) =>
             \A k \in slice(iid) :
                ~ overlaps[k].discarded =>
                   \A cell \in cellsRead(ESToverlapSpan(overlaps[k])) :
                      rebuilt(cell[1], cell[2])
    ]_vars

\* The positions whose discarded flag a step writes: those where it changes.
flagsWritten ==
  { k \in 1..Len(overlaps) : k <= Len(overlaps') /\ overlaps'[k].discarded # overlaps[k].discarded }

\* C21: within one iteration the discarded flag of an overlap is written by at
\* most one work item, the one of the read whose slice
\* [overlapIndex[r], overlapIndex[r+1]) contains it; the slices of distinct
\* reads are disjoint, so no two work items write the same overlap record.
C21_SingleWriter ==
  [][ pc = "profile" =>
        /\ \A r1, r2 \in activeIIDs : r1 # r2 => slice(r1) \cap slice(r2) = {}
        /\ flagsWritten # {} =>
             \E iid \in activeIIDs \ visited :
                /\ flagsWritten \subseteq slice(iid)
                /\ visited' \in {visited, visited \cup {iid}}
    ]_vars

\* A work item has discarded an overlap of its slice and the other read has a
\* slice of its own.
C21_Witness ==
  /\ pc = "profile" /\ iter >= 1 /\ ~ overlapsMMF
  /\ \E iid \in visited : \E other \in activeIIDs \ {iid} :
        /\ \E k \in slice(iid) : overlaps[k].discarded
        /\ slice(other) # {}

\* What the work item of read iid reads of readProfile[], as <<index, field>>:
\* its own seqLen; for every overlap of its slice that it does not skip, the
\* seqLen of both reads (ESToverlapSpan) and, when the estimate is computed,
\* the errorMeanS of both reads (computeEstimatedErate).  A read outside the
\* window is a read of no profile.
fieldsRead(iid) ==
  {<<iid, "seqLen">>} \cup
  UNION { LET ids == { id \in {overlaps[k].a_iid, b_iid_of(overlaps[k])} : inWindow(id) }
          IN  { <<profileIndex(id), "seqLen">> : id \in ids } \cup
              (IF usesEstimate(iter)
                 THEN { <<profileIndex(id), "errorMeanS">> : id \in ids } ELSE {})
          : k \in { j \in slice(iid) : ~ overlaps[j].discarded } }

\* The step is the work item of read iid, run to its end.
workItem(iid) ==
  pc = "profile" /\ iid \in activeIIDs /\ iid \notin visited /\ iid \in visited'
    /\ readProfile[iid].seqLen > 0

\* C22 as stated: during the parallel phase the profile of read r is mutated
\* only by r's own work item and is neither read nor written by the work item
\* of any other read.
C22_ProfileOwnership ==
  [][ \A iid \in 0..(NumReads - 1) :
        workItem(iid) =>
          /\ \A j \in activeIIDs \ {iid} : readProfile'[j] = readProfile[j]
          /\ \A f \in fieldsRead(iid) : f[1] = iid
    ]_vars

\* C22, amended: the work item of read r writes no profile but r's, and of
\* r's only errorMeanU; of the profiles of other reads it reads only seqLen
\* and errorMeanS, which no work item writes.
C22_ProfileWriteOwnership ==
  [][ \A iid \in 0..(NumReads - 1) :
        workItem(iid) =>
          /\ \A j \in activeIIDs \ {iid} : readProfile'[j] = readProfile[j]
          /\ readProfile'[iid].seqLen = readProfile[iid].seqLen
          /\ readProfile'[iid].errorMeanS = readProfile[iid].errorMeanS
          /\ \A f \in fieldsRead(iid) :
               /\ f[2] \in {"seqLen", "errorMeanS"}
               /\ readProfile'[f[1]][f[2]] = readProfile[f[1]][f[2]]
    ]_vars

\* In an iteration that computes estimates, a work item has written a
\* non-zero mean into its profile after it read the profile of the partner
\* of an overlap it kept.
C22_Witness ==
  \E iid \in activeIIDs :
    /\ itemDone(iid) /\ iter >= 1
    /\ \E p \in 0..(readProfile[iid].seqLen - 1) : readProfile[iid].errorMeanU[p] > 0
    /\ \E k \in slice(iid) :
         /\ ~ overlaps[k].discarded
         /\ inWindow(b_iid_of(overlaps[k]))
         /\ profileIndex(b_iid_of(overlaps[k])) # iid

\* C23: for a fixed input the discard flags and the errorMeanU / errorMeanS
\* arrays after an iteration are the same for every order and interleaving of
\* the work items: whatever ran before it, a work item leaves what it would
\* have left had it run first, and the rebuild pass is a function of the means.
C23_ScheduleIndependence ==
  /\ pc = "profile" =>
       \A i \in visited :
          /\ planned[i].st = "ok"
          /\ { k \in slice(i) : overlaps[k].discarded } = planned[i].flags
          /\ readProfile[i].errorMeanU = planned[i].errorMeanU
  /\ afterRebuild =>
       \A i \in activeIIDs :
          /\ { k \in slice(i) : overlaps[k].discarded } = planned[i].flags
          /\ readProfile[i].errorMeanU = planned[i].errorMeanU
          /\ readProfile[i] = sumErrorMeanS(readProfile[i])

\* In an iteration that computes estimates one work item has run and has
\* written non-zero means, and the work item of another read, which has an
\* overlap with that read, is still to run.
C23_Witness ==
  /\ pc = "profile" /\ iter >= 1
  /\ \E i \in visited : \E j \in activeIIDs \ visited :
        /\ \E p \in 0..(readProfile[i].seqLen - 1) : readProfile[i].errorMeanU[p] > 0
        /\ readProfile[j].seqLen > 0
        /\ \E k \in slice(j) : /\ ~ overlaps[k].discarded
                               /\ inWindow(b_iid_of(overlaps[k]))
                               /\ profileIndex(b_iid_of(overlaps[k])) = i

\* The orders of visit that are tried for a slice: every permutation of the
\* program's order when the slice has at most MaxPermuted overlaps; for a
\* longer slice the program's order, its reverse and its rotation by one.
MaxPermuted == 3

Orders(s) ==
  LET n == Len(s)
  IN  IF n <= MaxPermuted
        THEN { [i \in 1..n |-> s[f[i]]] :
                 f \in { g \in [1..n -> 1..n] : \A a, b \in 1..n : a # b => g[a] # g[b] } }
        ELSE { s, [i \in 1..n |-> s[n + 1 - i]], [i \in 1..n |-> s[(i % n) + 1]] }

C25_DeletedReadsSkipped ==
  [][ pc # "done" =>
        \A iid \in activeIIDs :
           /\ readProfile'[iid].seqLen = readProfile[iid].seqLen
           /\ readProfile[iid].seqLen = 0 =>
                /\ readProfile'[iid] = readProfile[iid]
                /\ overlapIndex # << >> =>
                     \A k \in slice(iid) :
                        ~ overlaps[k].discarded /\ ~ overlaps'[k].discarded
    ]_vars

\* The run has ended, through the four iterations and the output, and the
\* slice of a deleted read holds an overlap of that read.
C25_Witness ==
  /\ pc = "done" /\ iter = NumIterations
  /\ \E iid \in activeIIDs :
        /\ readProfile[iid].seqLen = 0
        /\ \E k \in slice(iid) : overlaps[k].a_iid = iid + iidMin /\ ~ overlaps[k].discarded

\* C26: overlapIndex[0] = 0, overlapIndex is non-decreasing,
\* overlapIndex[numIIDs] is the number of overlaps of the active range, the
\* index is not modified after its construction, and for every active read r
\* every overlap at a position of [overlapIndex[r - iidMin],
\* overlapIndex[r - iidMin + 1]) has a_iid = r, whatever the active range.
C26_OverlapIndex ==
  [][ (pc \in {"load", "profile", "output"}) =>
        /\ overlapIndex[0] = 0
        /\ \A iid \in activeIIDs : overlapIndex[iid] <= overlapIndex[iid + 1]
        /\ overlapIndex[numIIDs] = numOverlapsInRange
        /\ overlapIndex' = overlapIndex
        /\ \A iid \in activeIIDs : \A k \in slice(iid) : overlaps[k].a_iid = iid + iidMin
    ]_vars

(***************************************************************************)
(* C27: the streaming load terminates with the right length.  When no      *)
(* cache exists, the load loop does not turn on an empty block while       *)
(* records are still awaited, it writes no record past the end of          *)
(* overlaps[], and when it has ended overlaps[] holds exactly numOvls      *)
(* records, populated in store order, and the cache file, when one is      *)
(* given, holds the same records.                                          *)
(***************************************************************************)
C27_StreamingLoad ==
  /\ (pc = "load" /\ no < numOverlapsInRange)
        => Len(loadBlockOfOverlaps(supplied, no)) > 0
  /\ pc = "load" => no <= numOverlapsInRange
  /\ fault # "overlaps[] written past its end 695"
  /\ (pc = "profile" /\ ~ overlapsMMF /\ iter = 0 /\ visited = {})
        => /\ Len(overlaps) = numOverlapsInRange
           /\ Len(supplied) >= numOverlapsInRange
           /\ overlaps = populateBlock(SubSeq(supplied, 1, numOverlapsInRange), 1, << >>).packed
           /\ ovlCache.given => ovlCache.data = overlaps

\* The positions of the slice of read iid that its work item gets to: those
\* with no earlier position of the slice that ends the process.
reached(iid) ==
  { k \in slice(iid) :
      \A j \in slice(iid) :
         j < k => visitOverlap(iid, j - 1).act \notin {"aborted", "crashed"} }

(***************************************************************************)
(* C28: profile lookups stay in bounds.  For every active range and every  *)
(* overlap that a work item visits and finds not discarded, the two        *)
(* subscripts a_iid - iidMin and b_iid - iidMin of readProfile[] lie in    *)
(* 0 .. numIIDs - 1.                                                       *)
(***************************************************************************)
C28_LookupsInBounds ==
  pc = "profile" =>
     \A iid \in activeIIDs \ visited :
        readProfile[iid].seqLen > 0 =>
           \A k \in reached(iid) :
              ~ skipDiscarded(overlaps[k]) =>
                 /\ inWindow(overlaps[k].a_iid)
                 /\ inWindow(b_iid_of(overlaps[k]))

(***************************************************************************)
(* C29: no read of an unwritten prefix-sum entry.  In an iteration with    *)
(* index >= 1, every cell of errorMeanS that computeEstimatedErate reads   *)
(* for an overlap a work item visits (a_beg and a_end of read a, b_beg and *)
(* b_end of read b) is one the rebuild pass of the iteration before has    *)
(* assigned.  The overlaps looked at are those whose estimate runs to its  *)
(* end: of the read itself, partner in the window, both regions non-empty. *)
(***************************************************************************)
C29_NoUnwrittenSum ==
  (pc = "profile" /\ iter >= 1) =>
     \A iid \in activeIIDs \ visited :
        readProfile[iid].seqLen > 0 =>
           \A k \in reached(iid) :
              (/\ ~ skipDiscarded(overlaps[k])
               /\ overlaps[k].a_iid = iid + iidMin
               /\ inWindow(b_iid_of(overlaps[k]))
               /\ wellFormedSpan(ESToverlapSpan(overlaps[k]))) =>
                 \A cell \in cellsRead(ESToverlapSpan(overlaps[k])) :
                    rebuilt(cell[1], cell[2])

\* The hash ranges of the jobs written, each once.
hashRanges == { <<OPT[i].hashBeg, OPT[i].hashEnd>> : i \in 1..Len(OPT) }

(***************************************************************************)
(* C30: partition tool, hash coverage.  When partitionLength has returned, *)
(* the hash ranges of the jobs it wrote are non-empty, pairwise disjoint   *)
(* and consecutive (the first begins at hashMin, each other one right      *)
(* after the end of another) and every read id of hashMin..hashMax lies in *)
(* one of them.                                                            *)
(***************************************************************************)
C30_HashCoverage ==
  step = "done" =>
     /\ \A r \in hashRanges : r[1] <= r[2]
     /\ \A r, q \in hashRanges : r # q => (r[2] < q[1] \/ q[2] < r[1])
     /\ \A r \in hashRanges :
           r[1] = hashMin \/ \E q \in hashRanges : r[1] = q[2] + 1
     /\ \A id \in hashMin..hashMax :
           \E r \in hashRanges : r[1] <= id /\ id <= r[2]

(***************************************************************************)
(* C31: partition tool, job well-formedness.  Every job line written has   *)
(* refMin <= refBeg <= refEnd <= refMax, the job names are 1, 2, 3, ...    *)
(* with no gap, and the batch name goes up by one after every batchMax     *)
(* jobs.                                                                   *)
(***************************************************************************)
C31_JobWellFormed ==
  step \in {"ref", "hash", "done"} =>
     /\ \A i \in 1..Len(OPT) :
           /\ refMin <= OPT[i].refBeg
           /\ OPT[i].refBeg <= OPT[i].refEnd
           /\ OPT[i].refEnd <= refMax
     /\ Len(JOB) = Len(OPT) /\ Len(BAT) = Len(OPT)
     /\ \A i \in 1..Len(JOB) : JOB[i] = i
     /\ \A i \in 1..Len(BAT) : BAT[i] = 1 + ((i - 1) \div batchMax)

====
